---- MODULE Spec2Model ----
(***************************************************************************)
(* Normalization core of the listings pipeline: key normalizer             *)
(* (lib/json_utils.py), record flattener and tabular sanitizer (main.py).  *)
(*                                                                         *)
(* A Python str is a sequence of one-character strings.  A Python value is *)
(* a tagged record: [t |-> "str", s], [t |-> "num", digits],               *)
(* [t |-> "null"], [t |-> "bool", b], [t |-> "list", items],               *)
(* [t |-> "dict", items] where a dict's items is the insertion-ordered     *)
(* sequence of <<key, value>> pairs with pairwise distinct keys.           *)
(***************************************************************************)
EXTENDS Integers, Sequences, FiniteSets, TLC

VARIABLES key, keyOut, keyOut2, keyPc, tree, treeOut, treePc,
          data, flatOut, flatPc,
          df, prefer_cols, max_cols, sanOut, sanPc,
          enrRow, enrOut, enrOut2, enrPc, amenRow, amenOut, amenOut2, amenPc,
          args_limit, out_ext, data_raw, written, cliPc,
          page_limit, max_pages, offset, pages, total, all_parks, park_keys,
          requests, pagePc,
          fetcher, rows, pins, reply_shift, task, sem_value, sem_waiters, results,
          overtaken, fetchOut, fetchPc

\* ------------------------------------------------------------------------
\* Bounds
\* ------------------------------------------------------------------------
MaxKeyLen == 4

MaxWidth == 2

MaxItems == 2

MaxPrefer == 2

MaxMaxCols == 3

LongRows == 11

\* longest sales list and longest history list of a row
MaxEntries == 3

\* longest details list of a row
MaxDetails == 2

\* longest type text of a detail
MaxTypeLen == 5

\* largest --limit given on the command line
MaxLimit == 4

\* most records a fetch returns to the command line
MaxRaw == 5

\* the page sizes tried take the search from 1 to MaxSteps pages to pass
\* the offset cap
MaxSteps == 4

\* largest max_pages argument
MaxPages == 3

\* longest list of search rows (of park keys) in the runs that vary the
\* rows and the replies
MaxRows == 2

\* most keys beyond the semaphore's permits in the runs that fill it
MaxExtra == 2

\* ------------------------------------------------------------------------
\* Characters
\* ------------------------------------------------------------------------
LowerAlpha ==
  <<"a","b","c","d","e","f","g","h","i","j","k","l","m",
    "n","o","p","q","r","s","t","u","v","w","x","y","z">>

UpperAlpha ==
  <<"A","B","C","D","E","F","G","H","I","J","K","L","M",
    "N","O","P","Q","R","S","T","U","V","W","X","Y","Z">>

Digit == {"0","1","2","3","4","5","6","7","8","9"}

Whitespace == {" "}

IsLower(c) == \E i \in 1..26 : LowerAlpha[i] = c

IsUpper(c) == \E i \in 1..26 : UpperAlpha[i] = c

IsAlnum(c) == IsLower(c) \/ IsUpper(c) \/ c \in Digit

chr_lower(c) ==
  IF IsUpper(c) THEN LowerAlpha[CHOOSE i \in 1..26 : UpperAlpha[i] = c] ELSE c

chr_upper(c) ==
  IF IsLower(c) THEN UpperAlpha[CHOOSE i \in 1..26 : LowerAlpha[i] = c] ELSE c

str_lower(s) == [i \in 1..Len(s) |-> chr_lower(s[i])]

str_upper(s) == [i \in 1..Len(s) |-> chr_upper(s[i])]

\* s[a:b] with 0-based, end-exclusive Python slice indices 0 <= a, b
Slice(s, a, b) ==
  LET hi == IF b > Len(s) THEN Len(s) ELSE b
  IN  IF a >= hi THEN <<>> ELSE [i \in 1..(hi - a) |-> s[a + i]]

\* str.strip(): drop leading and trailing whitespace
str_strip(s) ==
  LET keep == {i \in 1..Len(s) : s[i] \notin Whitespace}
  IN  IF keep = {} THEN <<>>
      ELSE LET lo == CHOOSE i \in keep : \A j \in keep : i <= j
               hi == CHOOSE i \in keep : \A j \in keep : i >= j
           IN  Slice(s, lo - 1, hi)

str_endswith(s, suf) ==
  /\ Len(s) >= Len(suf)
  /\ \A i \in 1..Len(suf) : s[Len(s) - Len(suf) + i] = suf[i]

\* no hump is split
CAMEL_SPLIT_sub_none(s) == s

\* _CAMEL_SPLIT.sub(r"\1 \2", s): leftmost non-overlapping matches of
\* ([a-z0-9])([A-Z]), scanning resumes after the matched pair
RECURSIVE CamelSplitFrom(_, _)
CamelSplitFrom(s, i) ==
  IF i > Len(s) THEN <<>>
  ELSE IF i < Len(s) /\ (IsLower(s[i]) \/ s[i] \in Digit) /\ IsUpper(s[i + 1])
       THEN <<s[i], " ", s[i + 1]>> \o CamelSplitFrom(s, i + 2)
       ELSE <<s[i]>> \o CamelSplitFrom(s, i + 1)

CAMEL_SPLIT_sub(s) == CamelSplitFrom(s, 1)

\* separators are kept
NON_ALNUM_sub_keep(s) == s

\* _NON_ALNUM.sub(" ", s): every leftmost-longest match of [^0-9A-Za-z]+
\* is replaced by one space
RECURSIVE NonAlnumFrom(_, _)
NonAlnumFrom(s, i) ==
  IF i > Len(s) THEN <<>>
  ELSE IF IsAlnum(s[i]) THEN <<s[i]>> \o NonAlnumFrom(s, i + 1)
       ELSE LET stops == {j \in (i + 1)..Len(s) : IsAlnum(s[j])}
                nxt == IF stops = {} THEN Len(s) + 1
                       ELSE CHOOSE j \in stops : \A k \in stops : j <= k
            IN  <<" ">> \o NonAlnumFrom(s, nxt)

NON_ALNUM_sub(s) == NonAlnumFrom(s, 1)

\* str.split(): split on runs of whitespace, no empty tokens
RECURSIVE SplitFrom(_, _, _)
SplitFrom(s, i, cur) ==
  IF i > Len(s) THEN (IF cur = <<>> THEN <<>> ELSE <<cur>>)
  ELSE IF s[i] \in Whitespace
       THEN (IF cur = <<>> THEN <<>> ELSE <<cur>>) \o SplitFrom(s, i + 1, <<>>)
       ELSE SplitFrom(s, i + 1, Append(cur, s[i]))

str_split(s) == SplitFrom(s, 1, <<>>)

\* "".join(parts)
RECURSIVE str_join(_)
str_join(parts) ==
  IF parts = <<>> THEN <<>> ELSE Head(parts) \o str_join(Tail(parts))

SUFFIX == <<"_", "_", "c">>

\* p[:1].upper() + p[1:].lower()
TitleToken(p) == str_upper(Slice(p, 0, 1)) \o str_lower(Slice(p, 1, Len(p)))

to_camel_case(k) ==
  LET s0 == str_strip(k)
      s1 == IF str_endswith(s0, SUFFIX) THEN Slice(s0, 0, Len(s0) - 3) ELSE s0
      s2 == CAMEL_SPLIT_sub(s1)
      s3 == NON_ALNUM_sub(s2)
      parts == str_split(s3)
  IN  IF parts = <<>> THEN <<>>
      ELSE LET head == str_lower(parts[1])
               tail == [i \in 1..(Len(parts) - 1) |-> TitleToken(parts[i + 1])]
           IN  str_join(<<head>> \o tail)

\* ------------------------------------------------------------------------
\* Python values
\* ------------------------------------------------------------------------
None == [t |-> "null"]

Str(cs) == [t |-> "str", s |-> cs]

Num(ds) == [t |-> "num", digits |-> ds]

Bool(b) == [t |-> "bool", b |-> b]

List(xs) == [t |-> "list", items |-> xs]

Dict(ps) == [t |-> "dict", items |-> ps]

\* d[k] = v on an insertion-ordered dict: an existing key keeps its position
\* and takes the new value, a new key is appended
dict_set(ps, k, v) ==
  IF \E i \in 1..Len(ps) : ps[i][1] = k
  THEN [i \in 1..Len(ps) |-> IF ps[i][1] = k THEN <<k, v>> ELSE ps[i]]
  ELSE Append(ps, <<k, v>>)

\* {k: v for k, v in pairs}
RECURSIVE DictFromPairs(_, _)
DictFromPairs(pairs, n) ==
  IF n = 0 THEN <<>>
  ELSE dict_set(DictFromPairs(pairs, n - 1), pairs[n][1], pairs[n][2])

\* keys at the top of a dict only, values left as they are
normalize_keys_shallow(obj) ==
  IF obj.t = "dict"
  THEN Dict(DictFromPairs([i \in 1..Len(obj.items) |->
                             <<to_camel_case(obj.items[i][1]), obj.items[i][2]>>],
                          Len(obj.items)))
  ELSE obj

RECURSIVE normalize_keys(_)
normalize_keys(obj) ==
  IF obj.t = "dict"
  THEN Dict(DictFromPairs([i \in 1..Len(obj.items) |->
                             <<to_camel_case(obj.items[i][1]),
                               normalize_keys(obj.items[i][2])>>],
                          Len(obj.items)))
  ELSE IF obj.t = "list"
  THEN List([i \in 1..Len(obj.items) |-> normalize_keys(obj.items[i])])
  ELSE obj

\* ------------------------------------------------------------------------
\* json.loads on a str.  The texts of the model use objects, arrays,
\* strings without escapes, integers, the three literals and spaces.
\* A result is [st, v, i]: st is "ok" or the name of the exception raised,
\* v the decoded value, i the index after the value.
\* ------------------------------------------------------------------------

\* sys.get_int_max_str_digits(): int(str) of more digits raises ValueError
INT_MAX_STR_DIGITS == 4300

JOk(v, i) == [st |-> "ok", v |-> v, i |-> i]

JErr(e) == [st |-> e, v |-> None, i |-> 0]

\* index of the first character at or after i that is not whitespace
SkipWs(s, i) ==
  LET rest == {j \in i..Len(s) : s[j] \notin Whitespace}
  IN  IF rest = {} THEN Len(s) + 1
      ELSE CHOOSE j \in rest : \A k \in rest : j <= k

HasPrefixAt(s, i, lit) ==
  /\ i + Len(lit) - 1 <= Len(s)
  /\ \A j \in 1..Len(lit) : s[i + j - 1] = lit[j]

\* a string token starting at the opening quote s[i]
ParseString(s, i) ==
  LET quotes == {j \in (i + 1)..Len(s) : s[j] = "\""}
  IN  IF quotes = {} THEN JErr("JSONDecodeError")
      ELSE LET j == CHOOSE q \in quotes : \A k \in quotes : q <= k
           IN  JOk(Str(Slice(s, i, j - 1)), j + 1)

\* an integer token -?(0|[1-9][0-9]*) starting at s[i]
ParseNumber(s, i) ==
  LET d == IF s[i] = "-" THEN i + 1 ELSE i
  IN  IF d > Len(s) \/ s[d] \notin Digit THEN JErr("JSONDecodeError")
      ELSE IF s[d] = "0" THEN JOk(Num(Slice(s, i - 1, d)), d + 1)
      ELSE LET stops == {j \in d..Len(s) : s[j] \notin Digit}
               e == IF stops = {} THEN Len(s) + 1
                    ELSE CHOOSE j \in stops : \A k \in stops : j <= k
           IN  IF e - d > INT_MAX_STR_DIGITS THEN JErr("ValueError")
               ELSE JOk(Num(Slice(s, i - 1, e - 1)), e)

RECURSIVE ParseValue(_, _), ParseElements(_, _, _), ParseMembers(_, _, _)
ParseValue(s, i0) ==
  LET i == SkipWs(s, i0)
  IN  IF i > Len(s) THEN JErr("JSONDecodeError")
      ELSE IF s[i] = "{" THEN
        LET j == SkipWs(s, i + 1)
        IN  IF j <= Len(s) /\ s[j] = "}" THEN JOk(Dict(<<>>), j + 1)
            ELSE ParseMembers(s, j, <<>>)
      ELSE IF s[i] = "[" THEN
        LET j == SkipWs(s, i + 1)
        IN  IF j <= Len(s) /\ s[j] = "]" THEN JOk(List(<<>>), j + 1)
            ELSE ParseElements(s, j, <<>>)
      ELSE IF s[i] = "\"" THEN ParseString(s, i)
      ELSE IF s[i] = "-" \/ s[i] \in Digit THEN ParseNumber(s, i)
      ELSE IF HasPrefixAt(s, i, <<"n","u","l","l">>) THEN JOk(None, i + 4)
      ELSE IF HasPrefixAt(s, i, <<"t","r","u","e">>) THEN JOk(Bool(TRUE), i + 4)
      ELSE IF HasPrefixAt(s, i, <<"f","a","l","s","e">>)
           THEN JOk(Bool(FALSE), i + 5)
      ELSE JErr("JSONDecodeError")

\* the elements of an array after "[" or ",", acc holds those decoded so far
ParseElements(s, i, acc) ==
  LET r == ParseValue(s, i)
  IN  IF r.st # "ok" THEN r
      ELSE LET j == SkipWs(s, r.i)
               xs == Append(acc, r.v)
           IN  IF j > Len(s) THEN JErr("JSONDecodeError")
               ELSE IF s[j] = "]" THEN JOk(List(xs), j + 1)
               ELSE IF s[j] = "," THEN ParseElements(s, j + 1, xs)
               ELSE JErr("JSONDecodeError")

\* the members of an object after "{" or ",", acc holds those decoded so far
ParseMembers(s, i0, acc) ==
  LET i == SkipWs(s, i0)
  IN  IF i > Len(s) \/ s[i] # "\"" THEN JErr("JSONDecodeError")
      ELSE LET k == ParseString(s, i)
           IN  IF k.st # "ok" THEN k
               ELSE LET c == SkipWs(s, k.i)
                    IN  IF c > Len(s) \/ s[c] # ":" THEN JErr("JSONDecodeError")
                        ELSE LET r == ParseValue(s, c + 1)
                             IN  IF r.st # "ok" THEN r
                                 ELSE LET j == SkipWs(s, r.i)
                                          ps == dict_set(acc, k.v.s, r.v)
                                      IN  IF j > Len(s) THEN JErr("JSONDecodeError")
                                          ELSE IF s[j] = "}" THEN JOk(Dict(ps), j + 1)
                                          ELSE IF s[j] = "," THEN ParseMembers(s, j + 1, ps)
                                          ELSE JErr("JSONDecodeError")

json_loads(s) ==
  LET r == ParseValue(s, 1)
  IN  IF r.st # "ok" THEN r
      ELSE IF SkipWs(s, r.i) <= Len(s) THEN JErr("JSONDecodeError")
      ELSE r

\* ------------------------------------------------------------------------
\* Record flattener.  A result is [st, out]: st is "returned" or "raised".
\* ------------------------------------------------------------------------

\* [d for d in xs if isinstance(d, dict)]
DictsOf(xs) == SelectSeq(xs, LAMBDA d : d.t = "dict")

\* the inner loop descends into lists of the nested list as well
RECURSIVE nested_list_records_deep(_)
nested_list_records_deep(xs) ==
  IF xs = <<>> THEN <<>>
  ELSE (IF Head(xs).t = "dict" THEN <<Head(xs)>>
        ELSE IF Head(xs).t = "list" THEN nested_list_records_deep(Head(xs).items)
        ELSE <<>>) \o nested_list_records_deep(Tail(xs))

\* for sub_item in item: if isinstance(sub_item, dict): out.append(sub_item)
nested_list_records(xs) == DictsOf(xs)

\* the try block for a str item: what is appended, or the exception that
\* leaves the function (only json.JSONDecodeError is caught)
str_item_records(s) ==
  LET r == json_loads(s)
  IN  IF r.st = "JSONDecodeError" THEN [st |-> "ok", recs |-> <<>>]
      ELSE IF r.st # "ok" THEN [st |-> r.st, recs |-> <<>>]
      ELSE IF r.v.t = "dict" THEN [st |-> "ok", recs |-> <<r.v>>]
      ELSE IF r.v.t = "list" THEN [st |-> "ok", recs |-> DictsOf(r.v.items)]
      ELSE [st |-> "ok", recs |-> <<>>]

item_records(item) ==
  IF item.t = "dict" THEN [st |-> "ok", recs |-> <<item>>]
  ELSE IF item.t = "list"
  THEN [st |-> "ok", recs |-> nested_list_records(item.items)]
  ELSE IF item.t = "str" THEN str_item_records(item.s)
  ELSE [st |-> "ok", recs |-> <<>>]

\* the for loop over data: stops at the first item that raises
RECURSIVE flatten_loop(_, _, _)
flatten_loop(items, i, out) ==
  IF i > Len(items) THEN [st |-> "returned", out |-> out]
  ELSE LET r == item_records(items[i])
       IN  IF r.st # "ok" THEN [st |-> "raised", out |-> <<>>]
           ELSE flatten_loop(items, i + 1, out \o r.recs)

\* the branch for a single mapping is missing
flatten_records_maybe_list_only(d) ==
  IF d.t = "list" THEN flatten_loop(d.items, 1, <<>>)
  ELSE [st |-> "returned", out |-> <<>>]

flatten_records_maybe(d) ==
  IF d.t = "list" THEN flatten_loop(d.items, 1, <<>>)
  ELSE IF d.t = "dict" THEN [st |-> "returned", out |-> <<d>>]
  ELSE [st |-> "returned", out |-> <<>>]

\* ------------------------------------------------------------------------
\* Tabular sanitizer.  A DataFrame is the sequence of its columns, each
\* [name, cells] with one cell per row; a cell is a Python value and None
\* stands for a missing value (None or NaN).  Column dtypes follow pandas'
\* inference for columns built from JSON records.
\* ------------------------------------------------------------------------

\* json.dumps(v, ensure_ascii=False)
RECURSIVE json_dumps(_), DumpsItems(_, _), DumpsMembers(_, _)
json_dumps(v) ==
  IF v.t = "null" THEN <<"n","u","l","l">>
  ELSE IF v.t = "bool"
  THEN (IF v.b THEN <<"t","r","u","e">> ELSE <<"f","a","l","s","e">>)
  ELSE IF v.t = "num" THEN v.digits
  ELSE IF v.t = "str" THEN <<"\"">> \o v.s \o <<"\"">>
  ELSE IF v.t = "list"
  THEN <<"[">> \o DumpsItems(v.items, Len(v.items)) \o <<"]">>
  ELSE <<"{">> \o DumpsMembers(v.items, Len(v.items)) \o <<"}">>

DumpsItems(xs, n) ==
  IF n = 0 THEN <<>>
  ELSE IF n = 1 THEN json_dumps(xs[1])
  ELSE DumpsItems(xs, n - 1) \o <<",", " ">> \o json_dumps(xs[n])

DumpsMembers(ps, n) ==
  IF n = 0 THEN <<>>
  ELSE (IF n = 1 THEN <<>> ELSE DumpsMembers(ps, n - 1) \o <<",", " ">>)
         \o <<"\"">> \o ps[n][1] \o <<"\"", ":", " ">> \o json_dumps(ps[n][2])

is_scalar(v) == v.t \notin {"list", "dict"}

safe_json_dumps(v) == Str(json_dumps(v))

\* pd.to_numeric(errors='coerce') on one cell
coerce_cell(v) ==
  IF v.t = "num" THEN v
  ELSE IF v.t = "bool" THEN Num(IF v.b THEN <<"1">> ELSE <<"0">>)
  ELSE IF v.t = "str" /\ v.s # <<>> /\ \A i \in 1..Len(v.s) : v.s[i] \in Digit
  THEN Num(v.s)
  ELSE None

coerce_numeric(cells) == [i \in 1..Len(cells) |-> coerce_cell(cells[i])]

\* len(s.dropna()) and s.notna().sum()
CountNotNull(cells) == Cardinality({i \in 1..Len(cells) : cells[i].t # "null"})

\* dtype pandas gives a column holding these cells
dtype_of(cells) ==
  LET kinds == {cells[i].t : i \in 1..Len(cells)}
  IN  IF kinds = {"num"} THEN "int64"
      ELSE IF kinds = {"num", "null"} THEN "float64"
      ELSE IF kinds = {"bool"} THEN "bool"
      ELSE "object"

is_numeric_dtype(cells) == dtype_of(cells) \in {"int64", "float64", "bool"}

is_bool_dtype(cells) == dtype_of(cells) = "bool"

\* an object column is a string column when every cell is a str
is_string_dtype(cells) ==
  /\ dtype_of(cells) = "object"
  /\ cells # <<>>
  /\ \A i \in 1..Len(cells) : cells[i].t = "str"

is_datetime64_any_dtype(cells) == dtype_of(cells) = "datetime64"

\* the threshold test is not strict
clean_column_ge(cells) ==
  IF is_numeric_dtype(cells) \/ is_bool_dtype(cells) \/ is_string_dtype(cells)
  THEN cells
  ELSE LET coerced == coerce_numeric(cells)
       IN  IF /\ CountNotNull(cells) > 0
              /\ 10 * CountNotNull(coerced) >= 9 * CountNotNull(cells)
           THEN coerced
           ELSE [i \in 1..Len(cells) |->
                   IF ~is_scalar(cells[i]) THEN safe_json_dumps(cells[i])
                   ELSE cells[i]]

\* one pass of the first loop over a column; for counts of this size the
\* float test notna/len > 0.9 is the exact test 10 * notna > 9 * len
clean_column(cells) ==
  IF is_numeric_dtype(cells) \/ is_bool_dtype(cells) \/ is_string_dtype(cells)
  THEN cells
  ELSE LET coerced == coerce_numeric(cells)
       IN  IF /\ CountNotNull(cells) > 0
              /\ 10 * CountNotNull(coerced) > 9 * CountNotNull(cells)
           THEN coerced
           ELSE [i \in 1..Len(cells) |->
                   IF ~is_scalar(cells[i]) THEN safe_json_dumps(cells[i])
                   ELSE cells[i]]

clean_frame(frame) ==
  [i \in 1..Len(frame) |->
     [name |-> frame[i].name, cells |-> clean_column(frame[i].cells)]]

is_safe(cells) ==
  \/ is_numeric_dtype(cells)
  \/ is_bool_dtype(cells)
  \/ is_string_dtype(cells)
  \/ is_datetime64_any_dtype(cells)

ColumnNames(frame) == [i \in 1..Len(frame) |-> frame[i].name]

InSeq(x, xs) == \E i \in 1..Len(xs) : xs[i] = x

\* every column counts as safe
safe_columns_all(cleaned) == ColumnNames(cleaned)

safe_columns(cleaned) ==
  ColumnNames(SelectSeq(cleaned, LAMBDA c : is_safe(c.cells)))

\* the preferred columns are put after the others
order_columns_last(prefer, safe) ==
  SelectSeq(safe, LAMBDA c : prefer.t = "null" \/ ~InSeq(c, prefer.items))
    \o (IF prefer.t = "null" THEN <<>>
        ELSE SelectSeq(prefer.items, LAMBDA c : InSeq(c, safe)))

\* ordered_cols: preferred safe columns, then the remaining safe columns
order_columns(prefer, safe) ==
  LET first == IF prefer.t = "null" \/ prefer.items = <<>> THEN <<>>
               ELSE SelectSeq(prefer.items, LAMBDA c : InSeq(c, safe))
  IN  first \o SelectSeq(safe, LAMBDA c : ~InSeq(c, first))

\* the fallback returns every column
select_columns_all(ordered, cleaned, n) ==
  IF ordered # <<>> THEN Slice(ordered, 0, n) ELSE ColumnNames(cleaned)

\* cleaned[ordered_cols[:max_cols]] if ordered_cols else cleaned.iloc[:, :max_cols]
select_columns(ordered, cleaned, n) ==
  IF ordered # <<>> THEN Slice(ordered, 0, n)
  ELSE Slice(ColumnNames(cleaned), 0, n)

\* df.empty: no column or no row
df_empty(frame) == frame = <<>> \/ frame[1].cells = <<>>

\* the column named c of a frame with distinct column names
ColumnOf(frame, c) == frame[CHOOSE i \in 1..Len(frame) : frame[i].name = c]

sanitize_for_arrow(frame, prefer, n) ==
  IF df_empty(frame) THEN frame
  ELSE LET cleaned == clean_frame(frame)
           ordered == order_columns(prefer, safe_columns(cleaned))
           chosen == select_columns(ordered, cleaned, n)
       IN  [i \in 1..Len(chosen) |-> ColumnOf(cleaned, chosen[i])]

\* ------------------------------------------------------------------------
\* Assessor history/sales summarizer.  A row is a Dict with str keys; a
\* computed int is PyInt(n), a float with an integral value is Float(n), the
\* quotient of two floats is Quot(n, d).  A call result is [st, v, err]:
\* st is "ok" or "raised", err the name of the exception.
\* ------------------------------------------------------------------------
PyInt(n) == [t |-> "int", n |-> n]

Float(n) == [t |-> "float", n |-> n]

Quot(n, d) == [t |-> "quot", n |-> n, d |-> d]

Ok(v) == [st |-> "ok", v |-> v, err |-> ""]

Raise(e) == [st |-> "raised", v |-> None, err |-> e]

\* d.get(k, default)
dict_get(d, k, default) ==
  IF \E i \in 1..Len(d.items) : d.items[i][1] = k
  THEN d.items[CHOOSE i \in 1..Len(d.items) : d.items[i][1] = k][2]
  ELSE default

\* bool(v)
truthy(v) ==
  IF v.t = "null" THEN FALSE
  ELSE IF v.t = "bool" THEN v.b
  ELSE IF v.t \in {"int", "float"} THEN v.n # 0
  ELSE IF v.t = "str" THEN v.s # <<>>
  ELSE IF v.t \in {"list", "dict"} THEN v.items # <<>>
  ELSE TRUE

\* a or b
py_or(a, b) == IF truthy(a) THEN a ELSE b

DigitValue(c) == CHOOSE n \in 0..9 : <<"0","1","2","3","4","5","6","7","8","9">>[n + 1] = c

AllDigits(cs) == cs # <<>> /\ \A i \in 1..Len(cs) : cs[i] \in Digit

RECURSIVE DigitsToInt(_)
DigitsToInt(cs) ==
  IF cs = <<>> THEN 0
  ELSE 10 * DigitsToInt(SubSeq(cs, 1, Len(cs) - 1)) + DigitValue(cs[Len(cs)])

RECURSIVE IntToDigits(_)
IntToDigits(n) ==
  IF n < 10 THEN <<<<"0","1","2","3","4","5","6","7","8","9">>[n + 1]>>
  ELSE Append(IntToDigits(n \div 10),
              <<"0","1","2","3","4","5","6","7","8","9">>[(n % 10) + 1])

\* s.replace(c, "")
str_remove(cs, c) == SelectSeq(cs, LAMBDA x : x # c)

\* pd.isna(v) used as a condition: a list of two or more values gives an
\* array whose truth value is ambiguous
isna_test(v) ==
  IF v.t = "null" THEN Ok(Bool(TRUE))
  ELSE IF v.t = "list" /\ Len(v.items) >= 2 THEN Raise("ValueError")
  ELSE Ok(Bool(FALSE))

\* float(text) for the texts of the model: unsigned decimal integers
py_float(cs) == IF AllDigits(cs) THEN Ok(Float(DigitsToInt(cs))) ELSE Raise("ValueError")

\* lines 329-337: _num once pd.isna(s) is known to be False
num_not_na(v) ==
  IF v.t \in {"int", "float"} THEN Ok(Float(v.n))
  ELSE IF v.t = "bool" THEN Ok(Float(IF v.b THEN 1 ELSE 0))
  ELSE IF v.t = "str"
  THEN IF py_float(str_strip(str_remove(str_remove(v.s, "$"), ","))).st = "ok"
       THEN py_float(str_strip(str_remove(str_remove(v.s, "$"), ",")))
       ELSE Ok(None)
  ELSE Ok(None)

\* _num
num(v) ==
  IF isna_test(v).st # "ok" THEN isna_test(v)
  ELSE IF isna_test(v).v.b THEN Ok(None)
  ELSE num_not_na(v)

\* pd.Timestamp.min, as year * 10000 + month * 100 + day
TIMESTAMP_MIN == 16770921

\* pd.Timestamp.max, in the same encoding
TIMESTAMP_MAX == 22620411

NaT == [t |-> "nat"]

Timestamp(d) == [t |-> "timestamp", d |-> d]

\* days of month m in year y
DaysIn(y, m) ==
  IF m = 2
  THEN IF (y % 4 = 0 /\ y % 100 # 0) \/ y % 400 = 0 THEN 29 ELSE 28
  ELSE IF m \in {4, 6, 9, 11} THEN 30 ELSE 31

\* the Timestamp of year y, month m, day d, NaT outside the calendar or
\* outside the Timestamp range
make_timestamp(y, m, d) ==
  IF /\ m \in 1..12 /\ d \in 1..DaysIn(y, m)
     /\ y * 10000 + m * 100 + d > TIMESTAMP_MIN
     /\ y * 10000 + m * 100 + d < TIMESTAMP_MAX
  THEN Timestamp(y * 10000 + m * 100 + d) ELSE NaT

\* pd.to_datetime(text, errors="coerce") for the texts of the model:
\* YYYY-MM-DD inside the Timestamp range, anything else is NaT
to_datetime_text(cs) ==
  IF /\ Len(cs) = 10
     /\ cs[5] = "-" /\ cs[8] = "-"
     /\ AllDigits(SubSeq(cs, 1, 4)) /\ AllDigits(SubSeq(cs, 6, 7))
     /\ AllDigits(SubSeq(cs, 9, 10))
  THEN make_timestamp(DigitsToInt(SubSeq(cs, 1, 4)), DigitsToInt(SubSeq(cs, 6, 7)),
                      DigitsToInt(SubSeq(cs, 9, 10)))
  ELSE NaT

\* _to_dt: None for a falsy or missing value, a Timestamp or NaT for a str;
\* a non-empty list or mapping makes pandas raise
to_dt(v) ==
  IF ~truthy(v) THEN Ok(None)
  ELSE IF v.t \in {"list", "dict"} THEN Raise("ValueError")
  ELSE IF v.t = "str" THEN Ok(to_datetime_text(v.s))
  ELSE Ok(NaT)

or_timestamp_min(r) == IF r.st # "ok" THEN r ELSE Ok(py_or(r.v, Timestamp(TIMESTAMP_MIN)))

\* the max() key: _to_dt(s.get("saledate")) or pd.Timestamp.min
sale_key(sale) == or_timestamp_min(to_dt(dict_get(sale, "saledate", None)))

\* a > b on max() keys: every comparison with NaT is False
key_gt(a, b) == a.t = "timestamp" /\ b.t = "timestamp" /\ a.d > b.d

\* max(xs, key=...): index of the first element no later element beats
RECURSIVE max_index(_, _, _)
max_index(ks, i, best) ==
  IF i > Len(ks) THEN best
  ELSE max_index(ks, i + 1, IF key_gt(ks[i], ks[best]) THEN i ELSE best)

\* the first call of rs that raised, or Ok(None)
RECURSIVE first_raise(_)
first_raise(rs) ==
  IF rs = <<>> THEN Ok(None)
  ELSE IF rs[1].st # "ok" THEN rs[1]
  ELSE first_raise(Tail(rs))

sales_count_rerun(row, sales_dicts) ==
  PyInt(Len(sales_dicts) + dict_get(row, "salesCount", PyInt(0)).n)

\* len(sales_dicts)
sales_count(row, sales_dicts) == PyInt(Len(sales_dicts))

\* lines 357-359: the entries for last_sale, price is the result of _num
last_sale_entries(count, last_sale, price) ==
  IF price.st # "ok" THEN price
  ELSE Ok(count \o
          <<<<"lastSaleDate", dict_get(last_sale, "saledate", None)>>,
            <<"lastSalePrice", price.v>>,
            <<"lastSaleQualified",
              py_or(dict_get(last_sale, "Qualified", None),
                    dict_get(last_sale, "qualified", None))>>>>)

\* lines 356-359
last_sale_summary(count, last_sale) ==
  IF ~truthy(last_sale) THEN Ok(count)
  ELSE last_sale_entries(count, last_sale,
         num(py_or(dict_get(last_sale, "SalePrice", None),
                   dict_get(last_sale, "salePrice", None))))

\* line 354: max() over sales_dicts, ks are the results of the key calls
max_sale_summary(count, sales_dicts, ks) ==
  IF first_raise(ks).st # "ok" THEN first_raise(ks)
  ELSE IF sales_dicts = <<>> THEN Ok(count)
  ELSE last_sale_summary(count,
         sales_dicts[max_index([i \in 1..Len(ks) |-> ks[i].v], 1, 1)])

\* lines 352-359
sales_dicts_summary(row, sales_dicts) ==
  max_sale_summary(<<<<"salesCount", sales_count(row, sales_dicts)>>>>, sales_dicts,
                   [i \in 1..Len(sales_dicts) |-> sale_key(sales_dicts[i])])

\* lines 350-361
sales_list_summary(row, sales) ==
  IF sales.t = "list" /\ sales.items # <<>>
  THEN sales_dicts_summary(row, DictsOf(sales.items))
  ELSE Ok(<<<<"salesCount", PyInt(0)>>>>)

\* lines 349-361: the entries that enrich_rivco_row adds for the sales list
sales_summary(row) == sales_list_summary(row, dict_get(row, "sales", List(<<>>)))

\* int(v)
py_int(v) ==
  IF v.t \in {"int", "float"} THEN Ok(PyInt(v.n))
  ELSE IF v.t = "bool" THEN Ok(PyInt(IF v.b THEN 1 ELSE 0))
  ELSE IF v.t = "str"
  THEN IF AllDigits(str_strip(v.s)) THEN Ok(PyInt(DigitsToInt(str_strip(v.s))))
       ELSE Raise("ValueError")
  ELSE Raise("TypeError")

\* str(v) for the scalar values of the model
py_str(v) ==
  IF v.t = "null" THEN Str(<<"N","o","n","e">>)
  ELSE IF v.t = "int" THEN Str(IntToDigits(v.n))
  ELSE IF v.t = "float" THEN Str(IntToDigits(v.n) \o <<".","0">>)
  ELSE IF v.t = "bool" THEN Str(IF v.b THEN <<"T","r","u","e">> ELSE <<"F","a","l","s","e">>)
  ELSE v

\* h.get("TaxYear") or h.get("taxYear")
tax_year(h) == py_or(dict_get(h, "TaxYear", None), dict_get(h, "taxYear", None))

\* the sorted() key: int(h.get("TaxYear") or h.get("taxYear") or 0)
tax_key(h) == py_int(py_or(tax_year(h), PyInt(0)))

\* sorted(xs, key=...) as the indices of xs in output order: ascending key,
\* equal keys in input order
RECURSIVE sorted_indices(_, _)
sorted_indices(ks, n) ==
  IF n = 0 THEN <<>>
  ELSE LET before == sorted_indices(ks, n - 1)
           p == Cardinality({j \in 1..Len(before) : ks[before[j]] <= ks[n]})
       IN  SubSeq(before, 1, p) \o <<n>> \o SubSeq(before, p + 1, Len(before))

sorted_by_key_unsorted(ks) == [i \in 1..Len(ks) |-> i]

\* sorted(xs, key=...) for the whole list, line 365
sorted_by_key(ks) == sorted_indices(ks, Len(ks))

\* h.get("AssessedTot") or h.get("assessedTot")
assessed_tot(h) == py_or(dict_get(h, "AssessedTot", None), dict_get(h, "assessedTot", None))

\* a / b
py_truediv(a, b) == IF b.n = 0 THEN Raise("ZeroDivisionError") ELSE Ok(Quot(a.n, b.n))

yoy_guard_no_zero_test(latest_val, prev_val) ==
  latest_val.t # "null" /\ prev_val.t # "null"

\* line 380
yoy_guard(latest_val, prev_val) ==
  latest_val.t # "null" /\ prev_val.t # "null" /\ prev_val.n # 0

\* lines 381-382, q is the result of the division
yoy_entries(base, delta, q) ==
  IF q.st # "ok" THEN q
  ELSE Ok(base \o <<<<"assessedYoYDelta", delta>>,
                    <<"assessedYoYPct", Quot(q.v.n * 100, q.v.d)>>>>)

\* lines 380-382
yoy_summary(base, latest_val, prev_val) ==
  IF yoy_guard(latest_val, prev_val)
  THEN yoy_entries(base, Float(latest_val.n - prev_val.n),
                   py_truediv(Float(latest_val.n - prev_val.n), prev_val))
  ELSE Ok(base)

\* lines 376-382, latest_val and prev_val are the results of _num
assessed_entries(latest, latest_val, prev_val) ==
  IF latest_val.st # "ok" THEN latest_val
  ELSE IF prev_val.st # "ok" THEN prev_val
  ELSE yoy_summary(<<<<"assessedYearLatest", py_str(tax_year(latest))>>,
                     <<"assessedLatest", latest_val.v>>,
                     <<"assessedPrev", prev_val.v>>>>,
                   latest_val.v, prev_val.v)

\* lines 373-382
latest_prev_summary(latest, prev) ==
  assessed_entries(latest, num(assessed_tot(latest)),
                   IF truthy(prev) THEN num(assessed_tot(prev)) ELSE Ok(None))

\* lines 371-382, order is hist_items as indices of hist_dicts
hist_items_summary(hist_dicts, order) ==
  latest_prev_summary(hist_dicts[order[Len(order)]],
                      IF Len(order) > 1 THEN hist_dicts[order[Len(order) - 1]] ELSE None)

\* lines 365-382, ks are the results of the key calls
sorted_summary(hist_dicts, ks) ==
  IF first_raise(ks).st # "ok" THEN first_raise(ks)
  ELSE IF hist_dicts = <<>> THEN Ok(<<>>)
  ELSE hist_items_summary(hist_dicts,
         sorted_by_key([i \in 1..Len(ks) |-> ks[i].v.n]))

\* lines 364-382
hist_list_summary(hist) ==
  IF hist.t = "list" /\ hist.items # <<>>
  THEN sorted_summary(DictsOf(hist.items),
         [i \in 1..Len(DictsOf(hist.items)) |-> tax_key(DictsOf(hist.items)[i])])
  ELSE Ok(<<>>)

\* lines 363-382: the entries that enrich_rivco_row adds for the history list
history_summary(row) == hist_list_summary(dict_get(row, "history", List(<<>>)))

\* s + h where both are returned
summaries(s, h) ==
  IF s.st # "ok" THEN s
  ELSE IF h.st # "ok" THEN h
  ELSE Ok(Dict(s.v \o h.v))

\* lines 345-384
enrich_rivco_row(row) == summaries(sales_summary(row), history_summary(row))

\* ------------------------------------------------------------------------
\* Amenity extractor.  The row's keys and the keys of the result are
\* character sequences; the keys of a detail are "category", "type", "value".
\* ------------------------------------------------------------------------
\* s.replace("_", " ")
underscores_to_spaces(s) == [i \in 1..Len(s) |-> IF s[i] = "_" THEN " " ELSE s[i]]

\* s.replace("  ", " "): one left-to-right pass over non-overlapping pairs
RECURSIVE collapse_pairs(_, _)
collapse_pairs(s, i) ==
  IF i > Len(s) THEN <<>>
  ELSE IF i < Len(s) /\ s[i] = " " /\ s[i + 1] = " "
       THEN <<" ">> \o collapse_pairs(s, i + 2)
       ELSE <<s[i]>> \o collapse_pairs(s, i + 1)

\* s.title(): a letter after a letter is lowered, any other letter is raised
str_title(s) ==
  [i \in 1..Len(s) |->
     IF i > 1 /\ (IsLower(s[i - 1]) \/ IsUpper(s[i - 1]))
     THEN chr_lower(s[i]) ELSE chr_upper(s[i])]

\* lines 234-239
to_readable(name) ==
  str_title(str_strip(collapse_pairs(CAMEL_SPLIT_sub(underscores_to_spaces(name)), 1)))

\* line 242
amenity_categories ==
  { <<"a","m","e","n","i","t","y">>,
    <<"i","n","f","r","a","s","t","r","u","c","t","u","r","e">>,
    <<"l","o","c","a","t","i","o","n">> }

AMENITY_PREFIX == <<"a","m","e","n","i","t","y","_">>

PAYLOAD_DETAILS ==
  <<"p","a","y","l","o","a","d",".","r","e","l","a","t","i","o","n","s","h","i","p","s",
    ".","d","e","t","a","i","l","s">>

DETAILS == <<"D","e","t","a","i","l","s">>

\* lines 244-259: the loop over details[i..], amenities is the dict so far;
\* a category that cannot be hashed makes the membership test raise
\* the assignment of line 260 with an existing key left as it is
amenities_set_keep_first(amenities, readable_name, value) ==
  IF \E i \in 1..Len(amenities) : amenities[i][1] = AMENITY_PREFIX \o readable_name
  THEN amenities
  ELSE Append(amenities, <<AMENITY_PREFIX \o readable_name, value>>)

\* line 260: amenities[f'amenity_{readable_name}'] = value
amenities_set(amenities, readable_name, value) ==
  dict_set(amenities, AMENITY_PREFIX \o readable_name, value)

RECURSIVE amenities_loop(_, _, _)
amenities_loop(details, i, amenities) ==
  IF i > Len(details) THEN Ok(Dict(amenities))
  ELSE IF details[i].t # "dict" THEN amenities_loop(details, i + 1, amenities)
  ELSE
    LET detail == details[i]
        category == dict_get(detail, "category", Str(<<>>))
        detail_type == py_str(py_or(dict_get(detail, "type", Str(<<>>)), Str(<<>>)))
        value == dict_get(detail, "value", None)
        shown == IF value.t = "bool"
                 THEN Str(IF value.b THEN <<"Y","e","s">> ELSE <<"N","o">>)
                 ELSE value
    IN  IF category.t \in {"list", "dict"} THEN Raise("TypeError")
        ELSE IF /\ category.t = "str" /\ category.s \in amenity_categories
                /\ value.t # "null"
                /\ truthy(detail_type)
                /\ ~(shown.t = "str" /\ str_strip(shown.s) = <<>>)
             THEN amenities_loop(details, i + 1,
                    amenities_set(amenities, to_readable(detail_type.s), shown))
             ELSE amenities_loop(details, i + 1, amenities)

\* lines 219-261
extract_amenities(row) ==
  LET first == dict_get(row, PAYLOAD_DETAILS, None)
      details == IF first.t = "null" THEN dict_get(row, DETAILS, None) ELSE first
  IN  IF details.t # "list" THEN Ok(Dict(<<>>))
      ELSE amenities_loop(details.items, 1, <<>>)

\* ------------------------------------------------------------------------
\* Key inputs
\* ------------------------------------------------------------------------
SeqsUpTo(S, n) == UNION {[1..k -> S] : k \in 0..n}

KeyAlphabet == {"a", "c", "B", "C", "1", "_", " "}

K_SALE_PRICE == <<"S","A","L","E","_","P","R","I","C","E","_","_","c">>

K_golfCourse == <<"g","o","l","f","C","o","u","r","s","e">>

K_multi_word ==
  <<" "," ","m","u","l","t","i"," "," "," ","w","o","r","d","_","_","c"," ">>

K_underscores == <<"_","_","_">>

ExampleKeys == {K_SALE_PRICE, K_golfCourse, K_multi_word, K_underscores}

KeyInputs == SeqsUpTo(KeyAlphabet, MaxKeyLen) \cup ExampleKeys

\* ------------------------------------------------------------------------
\* Key normalizer run: normalize a key, then normalize the result again
\* ------------------------------------------------------------------------
vars == <<key, keyOut, keyOut2, keyPc, tree, treeOut, treePc,
          data, flatOut, flatPc,
          df, prefer_cols, max_cols, sanOut, sanPc,
          enrRow, enrOut, enrOut2, enrPc, amenRow, amenOut, amenOut2, amenPc,
         args_limit, out_ext, data_raw, written, cliPc,
         page_limit, max_pages, offset, pages, total, all_parks, park_keys,
         requests, pagePc,
         fetcher, rows, pins, reply_shift, task, sem_value, sem_waiters, results,
         overtaken, fetchOut, fetchPc>>

keyVars == <<key, keyOut, keyOut2, keyPc>>

treeVars == <<tree, treeOut, treePc>>

flatVars == <<data, flatOut, flatPc>>

sanVars == <<df, prefer_cols, max_cols, sanOut, sanPc>>

enrVars == <<enrRow, enrOut, enrOut2, enrPc>>

amenVars == <<amenRow, amenOut, amenOut2, amenPc>>

cliVars == <<args_limit, out_ext, data_raw, written, cliPc>>

pageVars ==
  <<page_limit, max_pages, offset, pages, total, all_parks, park_keys, requests, pagePc>>

fetchVars ==
  <<fetcher, rows, pins, reply_shift, task, sem_value, sem_waiters, results,
    overtaken, fetchOut, fetchPc>>

scrapeVars == <<cliVars, pageVars, fetchVars>>

\* a component that takes no part in a run
IdleKey == key = <<>> /\ keyOut = <<>> /\ keyOut2 = <<>> /\ keyPc = "idle"

IdleTree == tree = None /\ treeOut = None /\ treePc = "idle"

IdleFlatten == data = None /\ flatOut = <<>> /\ flatPc = "idle"

IdleSanitize ==
  /\ df = <<>>
  /\ prefer_cols = None
  /\ max_cols = 0
  /\ sanOut = <<>>
  /\ sanPc = "idle"

IdleEnrich ==
  /\ enrRow = Dict(<<>>) /\ enrOut = Ok(None) /\ enrOut2 = Ok(None) /\ enrPc = "idle"
  /\ amenRow = Dict(<<>>) /\ amenOut = Ok(None) /\ amenOut2 = Ok(None)
  /\ amenPc = "idle"

IdleCli ==
  /\ args_limit = 0 /\ out_ext = <<>> /\ data_raw = List(<<>>)
  /\ written = None /\ cliPc = "idle"

IdlePages ==
  /\ page_limit = 0 /\ max_pages = None /\ offset = 0 /\ pages = 0 /\ total = None
  /\ all_parks = <<>> /\ park_keys = <<>> /\ requests = 0 /\ pagePc = "idle"

IdleFetch ==
  /\ fetcher = "" /\ rows = <<>> /\ pins = <<>> /\ reply_shift = 0
  /\ task = <<>> /\ sem_value = 0 /\ sem_waiters = <<>> /\ results = <<>>
  /\ overtaken = FALSE /\ fetchOut = None /\ fetchPc = "idle"

IdleScrape == IdleCli /\ IdlePages /\ IdleFetch

InitKey ==
  /\ key \in KeyInputs
  /\ keyOut = <<>>
  /\ keyOut2 = <<>>
  /\ keyPc = "start"
  /\ IdleTree
  /\ IdleFlatten
  /\ IdleSanitize
  /\ IdleEnrich
  /\ IdleScrape

Normalize ==
  /\ keyPc = "start"
  /\ keyOut' = to_camel_case(key)
  /\ keyPc' = "once"
  /\ UNCHANGED <<key, keyOut2, treeVars, flatVars, sanVars, enrVars, amenVars, scrapeVars>>

Renormalize ==
  /\ keyPc = "once"
  /\ keyOut2' = to_camel_case(keyOut)
  /\ keyPc' = "twice"
  /\ UNCHANGED <<key, keyOut, treeVars, flatVars, sanVars, enrVars, amenVars, scrapeVars>>

NextKey == Normalize \/ Renormalize

SpecKey == InitKey /\ [][NextKey]_vars

\* ------------------------------------------------------------------------
\* Tree inputs: JSON-derived trees, three levels deep, string keys
\* ------------------------------------------------------------------------
K_a_b == <<"a","_","b">>

K_aB == <<"a","B">>

K_X__c == <<"X","_","_","c">>

TreeKeys == {K_a_b, K_aB, K_X__c}

Scalars == {None, Str(K_a_b)}

\* sequences of at most n <<key, value>> pairs with pairwise distinct keys
PairSeqs(K, V, n) ==
  {ps \in SeqsUpTo(K \X V, n) :
     \A i, j \in 1..Len(ps) : i # j => ps[i][1] # ps[j][1]}

InnerTrees ==
  Scalars
    \cup {List(xs) : xs \in SeqsUpTo(Scalars, 1)}
    \cup {Dict(ps) : ps \in PairSeqs(TreeKeys, {None}, 1)}
    \cup {Dict(<<<<kk[1], None>>, <<kk[2], Str(K_a_b)>>>>) :
            kk \in {p \in TreeKeys \X TreeKeys : p[1] # p[2]}}

TreeInputs ==
  InnerTrees
    \cup {List(xs) : xs \in SeqsUpTo(InnerTrees, MaxWidth)}
    \cup {Dict(ps) : ps \in PairSeqs(TreeKeys, InnerTrees, MaxWidth)}

\* ------------------------------------------------------------------------
\* Tree normalizer run
\* ------------------------------------------------------------------------
InitTree ==
  /\ tree \in TreeInputs
  /\ treeOut = None
  /\ treePc = "start"
  /\ IdleKey
  /\ IdleFlatten
  /\ IdleSanitize
  /\ IdleEnrich
  /\ IdleScrape

NormalizeTree ==
  /\ treePc = "start"
  /\ treeOut' = normalize_keys(tree)
  /\ treePc' = "done"
  /\ UNCHANGED <<tree, keyVars, flatVars, sanVars, enrVars, amenVars, scrapeVars>>

NextTree == NormalizeTree

SpecTree == InitTree /\ [][NextTree]_vars

\* ------------------------------------------------------------------------
\* Flattener inputs
\* ------------------------------------------------------------------------
One(k, d) == Dict(<<<<<<k>>, Num(<<d>>)>>>>)

R_a == One("a", "1")

R_b == One("b", "2")

R_c == One("c", "3")

R_d == One("d", "4")

R_e == One("e", "5")

R_f == One("f", "6")

R_deep == One("g", "7")

T_not_json == <<"n","o","t"," ","j","s","o","n">>

T_c == <<"{","\"","c","\"",":","3","}">>

T_d == <<"[","{","\"","d","\"",":","4","}","]">>

T_f == <<"{","\"","f","\"",":","6","}">>

\* [[{"e":5}], {"d":4}, 3, "{}"]
T_nested ==
  <<"[","[","{","\"","e","\"",":","5","}","]",","," ">>
    \o <<"{","\"","d","\"",":","4","}",","," ","3",","," ","\"","{","}","\"","]">>

T_number == <<"3">>

T_extra == <<"{","}","{","}">>

\* an integer literal one digit longer than int(str) accepts
T_long_int == [i \in 1..(INT_MAX_STR_DIGITS + 1) |-> "1"]

FlatItems ==
  { R_a,
    List(<<R_b>>),
    List(<<List(<<R_deep>>), R_b, Str(T_f), List(<<>>), R_a>>),
    Str(T_not_json), Str(T_c), Str(T_d), Str(T_nested), Str(T_number),
    Str(T_extra), Str(T_long_int),
    Num(<<"1">>), None, Bool(TRUE) }

\* flatten([{"a":1}, [{"b":2}], "not json", "{\"c\":3}", "[{\"d\":4}]"])
P_example ==
  List(<<R_a, List(<<R_b>>), Str(T_not_json), Str(T_c), Str(T_d)>>)

FlatInputs ==
  {List(xs) : xs \in SeqsUpTo(FlatItems, MaxItems)}
    \cup {P_example, R_a, Dict(<<>>), None, Num(<<"1">>), Bool(FALSE),
          Str(T_c), Str(T_d)}

\* ------------------------------------------------------------------------
\* Flattener run
\* ------------------------------------------------------------------------
InitFlatten ==
  /\ data \in FlatInputs
  /\ flatOut = <<>>
  /\ flatPc = "start"
  /\ IdleKey
  /\ IdleTree
  /\ IdleSanitize
  /\ IdleEnrich
  /\ IdleScrape

Flatten ==
  /\ flatPc = "start"
  /\ LET r == flatten_records_maybe(data)
     IN  /\ flatPc' = r.st
         /\ flatOut' = r.out
  /\ UNCHANGED <<data, keyVars, treeVars, sanVars, enrVars, amenVars, scrapeVars>>

NextFlatten == Flatten

SpecFlatten == InitFlatten /\ [][NextFlatten]_vars

\* ------------------------------------------------------------------------
\* Sanitizer inputs: frames of two rows or none, distinct column names
\* ------------------------------------------------------------------------
ColNames == {"p", "q", "x"}

PreferNames == ColNames \cup {"z"}

N1 == Num(<<"1">>)

S_12 == Str(<<"1", "2">>)

S_bad == Str(<<"b", "a", "d">>)

L_1 == List(<<N1>>)

\* int64, string, mixed object, lists, numeric strings with a missing value
ColumnSamples ==
  { <<N1, N1>>, <<S_bad, S_12>>, <<N1, S_bad>>, <<L_1, L_1>>, <<L_1, None>>,
    <<S_12, None>> }

NameSeqs == {ns \in SeqsUpTo(ColNames, Cardinality(ColNames)) :
               \A i, j \in 1..Len(ns) : i # j => ns[i] # ns[j]}

FramesOver(ns) ==
  {[i \in 1..Len(ns) |-> [name |-> ns[i], cells |-> cs[i]]] :
     cs \in [1..Len(ns) -> ColumnSamples]}

NoRows(ns) == [i \in 1..Len(ns) |-> [name |-> ns[i], cells |-> <<>>]]

FrameInputs ==
  UNION {FramesOver(ns) : ns \in NameSeqs} \cup {NoRows(ns) : ns \in NameSeqs}

PreferInputs == {None} \cup {List(ps) : ps \in SeqsUpTo(PreferNames, MaxPrefer)}

\* ------------------------------------------------------------------------
\* Sanitizer run
\* ------------------------------------------------------------------------
InitSanitize ==
  /\ df \in FrameInputs
  /\ prefer_cols \in PreferInputs
  /\ max_cols \in 0..MaxMaxCols
  /\ sanOut = <<>>
  /\ sanPc = "start"
  /\ IdleKey
  /\ IdleTree
  /\ IdleFlatten
  /\ IdleEnrich
  /\ IdleScrape

Sanitize ==
  /\ sanPc = "start"
  /\ sanOut' = sanitize_for_arrow(df, prefer_cols, max_cols)
  /\ sanPc' = "done"
  /\ UNCHANGED <<df, prefer_cols, max_cols, keyVars, treeVars, flatVars, enrVars, amenVars, scrapeVars>>

NextSanitize == Sanitize

SpecSanitize == InitSanitize /\ [][NextSanitize]_vars

\* ------------------------------------------------------------------------
\* Sanitizer run on long columns: LongRows rows holding, in this order,
\* ints, numeric strings, other strings, lists and missing values
\* ------------------------------------------------------------------------
Repeat(v, n) == [i \in 1..n |-> v]

LongColumns ==
  {Repeat(N1, c[1]) \o Repeat(S_12, c[2]) \o Repeat(S_bad, c[3])
     \o Repeat(L_1, c[4])
     \o Repeat(None, LongRows - (c[1] + c[2] + c[3] + c[4])) :
     c \in {d \in (0..LongRows) \X (0..LongRows) \X (0..LongRows) \X (0..LongRows) :
              d[1] + d[2] + d[3] + d[4] <= LongRows}}

LongFrameInputs ==
  {<<[name |-> "p", cells |-> cs]>> : cs \in LongColumns}
    \cup {<<[name |-> "q", cells |-> Repeat(S_bad, LongRows)],
            [name |-> "p", cells |-> cs]>> : cs \in LongColumns}

InitThreshold ==
  /\ df \in LongFrameInputs
  /\ prefer_cols \in {None, List(<<"p">>)}
  /\ max_cols \in 0..MaxMaxCols
  /\ sanOut = <<>>
  /\ sanPc = "start"
  /\ IdleKey
  /\ IdleTree
  /\ IdleFlatten
  /\ IdleEnrich
  /\ IdleScrape

SpecThreshold == InitThreshold /\ [][NextSanitize]_vars

\* ------------------------------------------------------------------------
\* Enricher inputs and runs: the rows handed to enrich_rivco_row (line 506)
\* and to extract_amenities (line 548)
\* ------------------------------------------------------------------------
T_d2020 == Str(<<"2","0","2","0","-","0","1","-","0","1">>)

T_d2022 == Str(<<"2","0","2","2","-","0","6","-","0","1">>)

T_baddate == Str(<<"2","0","2","2","-","1","3","-","0","1">>)

T_na == Str(<<"n","/","a">>)

T_two == List(<<Str(<<"a">>), Str(<<"b">>)>>)

SaleSamples ==
  { Dict(<<<<"saledate", T_d2020>>, <<"SalePrice", Str(<<"$","1","0","0",",","0","0","0">>)>>,
           <<"Qualified", Str(<<"Q">>)>>>>),
    Dict(<<<<"saledate", T_d2022>>, <<"salePrice", PyInt(250000)>>>>),
    Dict(<<<<"saledate", T_d2022>>, <<"SalePrice", Str(<<"3","0","0","0","0","0">>)>>,
           <<"qualified", Str(<<"U">>)>>>>),
    Dict(<<<<"saledate", T_na>>, <<"SalePrice", Str(<<"$","1">>)>>>>),
    Dict(<<<<"saledate", T_baddate>>, <<"SalePrice", Str(<<"2">>)>>>>),
    Dict(<<<<"saledate", Str(<<>>)>>, <<"SalePrice", T_na>>>>),
    Dict(<<<<"SalePrice", PyInt(0)>>>>),
    Dict(<<<<"saledate", None>>, <<"SalePrice", PyInt(7)>>>>),
    Dict(<<>>),
    Dict(<<<<"saledate", T_two>>, <<"SalePrice", PyInt(3)>>>>),
    Dict(<<<<"saledate", T_d2020>>, <<"SalePrice", T_two>>>>),
    Str(<<"x">>) }

HistSamples ==
  { Dict(<<<<"TaxYear", PyInt(2021)>>, <<"AssessedTot", Str(<<"$","1","0","0",",","0","0","0">>)>>>>),
    Dict(<<<<"taxYear", Str(<<"2","0","2","2">>)>>, <<"assessedTot", PyInt(110000)>>>>),
    Dict(<<<<"TaxYear", PyInt(2022)>>, <<"AssessedTot", Str(<<"0">>)>>>>),
    Dict(<<<<"TaxYear", PyInt(2020)>>, <<"AssessedTot", PyInt(0)>>>>),
    Dict(<<<<"TaxYear", T_na>>, <<"AssessedTot", Str(<<"5">>)>>>>),
    Dict(<<<<"AssessedTot", Str(<<"9","0","0","0","0">>)>>>>),
    Dict(<<<<"TaxYear", PyInt(2023)>>>>),
    Dict(<<<<"TaxYear", PyInt(0)>>, <<"AssessedTot", PyInt(4)>>>>),
    Dict(<<>>),
    Dict(<<<<"TaxYear", T_two>>, <<"AssessedTot", PyInt(6)>>>>),
    Dict(<<<<"TaxYear", PyInt(2021)>>, <<"AssessedTot", T_two>>>>),
    Str(<<"x">>) }

\* a field that is not a list
NotLists == {None, Str(<<"x">>), PyInt(1), Dict(<<>>)}

SalesInputs == {List(xs) : xs \in SeqsUpTo(SaleSamples, MaxEntries)} \union NotLists

HistInputs == {List(xs) : xs \in SeqsUpTo(HistSamples, MaxEntries)} \union NotLists

\* rows with one of the two fields varied, and a few with both and a
\* column the summarizer does not read
EnrichInputs ==
  {Dict(<<<<"sales", v>>>>) : v \in SalesInputs}
    \union {Dict(<<<<"history", v>>>>) : v \in HistInputs}
    \union {Dict(<<<<"apn", Str(<<"1">>)>>, <<"sales", List(<<s>>)>>,
                   <<"history", List(<<h1, h2>>)>>>>) :
              s \in SaleSamples, h1 \in HistSamples, h2 \in HistSamples}
    \union {Dict(<<>>), Dict(<<<<"apn", Str(<<"1">>)>>>>)}

Detail(category, type, value) ==
  Dict(<<<<"category", category>>, <<"type", type>>, <<"value", value>>>>)

DetailSamples ==
  { Detail(Str(<<"a","m","e","n","i","t","y">>), Str(<<"g","o","l","f","_","c","o","u","r","s","e">>), Bool(TRUE)),
    Detail(Str(<<"a","m","e","n","i","t","y">>), Str(<<"g","o","l","f","C","o","u","r","s","e">>), Str(<<"1","8"," ","h","o","l","e","s">>)),
    Detail(Str(<<"l","o","c","a","t","i","o","n">>), Str(<<"g","a","t","e","d">>), Bool(FALSE)),
    Detail(Str(<<"i","n","f","r","a","s","t","r","u","c","t","u","r","e">>), Str(<<"p","o","o","l">>), Str(<<" ">>)),
    Detail(Str(<<"o","t","h","e","r">>), Str(<<"s","p","a">>), Str(<<"v">>)),
    Detail(Str(<<"a","m","e","n","i","t","y">>), None, Str(<<"v">>)),
    Detail(Str(<<"a","m","e","n","i","t","y">>), Str(<<"R","V","_","_","s","t","o","r","a","g","e">>), PyInt(2)),
    Dict(<<<<"category", Str(<<"a","m","e","n","i","t","y">>)>>, <<"type", Str(<<"w","i","f","i">>)>>>>),
    Dict(<<<<"type", Str(<<"s","p","a">>)>>, <<"value", PyInt(1)>>>>),
    Detail(T_two, Str(<<"s","p","a">>), Str(<<"v">>)),
    Detail(Dict(<<>>), Str(<<"s","p","a">>), None),
    Detail(PyInt(1), Str(<<"s","p","a">>), Str(<<"v">>)),
    Detail(Str(<<"a","m","e","n","i","t","y">>), PyInt(5), Str(<<"v">>)),
    Detail(Str(<<"l","o","c","a","t","i","o","n">>), Str(<<"G","o","l","f","_","C","o","u","r","s","e">>), None),
    Str(<<"x">>) }

TypeAlphabet == {"a", "B", "1", "_", " "}

TypeInputs == SeqsUpTo(TypeAlphabet, MaxTypeLen)

DetailsInputs == {List(xs) : xs \in SeqsUpTo(DetailSamples, MaxDetails)} \union NotLists

AmenityInputs ==
  {Dict(<<<<PAYLOAD_DETAILS, v>>>>) : v \in DetailsInputs}
    \union {Dict(<<<<DETAILS, v>>>>) : v \in DetailsInputs}
    \union {Dict(<<<<PAYLOAD_DETAILS, None>>, <<DETAILS, List(<<d>>)>>>>) :
              d \in DetailSamples}
    \union {Dict(<<<<DETAILS, List(<<Detail(Str(<<"a","m","e","n","i","t","y">>), Str(t), Str(<<"v">>))>>)>>>>) :
              t \in TypeInputs}
    \union {Dict(<<>>), Dict(<<<<<<"n","a","m","e">>, Str(<<"x">>)>>>>)}

InitEnrich ==
  /\ \/ enrRow \in EnrichInputs /\ amenRow = Dict(<<>>)
     \/ enrRow = Dict(<<>>) /\ amenRow \in AmenityInputs
  /\ enrOut = Ok(None) /\ enrOut2 = Ok(None) /\ enrPc = "start"
  /\ amenOut = Ok(None) /\ amenOut2 = Ok(None) /\ amenPc = "start"
  /\ IdleKey
  /\ IdleTree
  /\ IdleFlatten
  /\ IdleSanitize
  /\ IdleScrape

\* the row with the columns of a returned result appended (line 507)
Extended(r, result) == Dict(r.items \o result.v.items)

\* enrich_rivco_row(row), line 506
Enrich ==
  /\ enrPc = "start"
  /\ enrOut' = enrich_rivco_row(enrRow)
  /\ enrPc' = IF enrOut'.st = "ok" THEN "returned" ELSE "raised"
  /\ UNCHANGED <<enrRow, enrOut2, amenVars, keyVars, treeVars, flatVars, sanVars, scrapeVars>>

\* enrich_rivco_row on the row that carries the derived columns
EnrichAgain ==
  /\ enrPc = "returned"
  /\ enrOut2' = enrich_rivco_row(Extended(enrRow, enrOut))
  /\ enrPc' = "rerun"
  /\ UNCHANGED <<enrRow, enrOut, amenVars, keyVars, treeVars, flatVars, sanVars, scrapeVars>>

\* extract_amenities(row), line 548
Extract ==
  /\ amenPc = "start"
  /\ amenOut' = extract_amenities(amenRow)
  /\ amenPc' = IF amenOut'.st = "ok" THEN "returned" ELSE "raised"
  /\ UNCHANGED <<amenRow, amenOut2, enrVars, keyVars, treeVars, flatVars, sanVars, scrapeVars>>

\* extract_amenities on the row that carries the amenity columns
ExtractAgain ==
  /\ amenPc = "returned"
  /\ amenOut2' = extract_amenities(Extended(amenRow, amenOut))
  /\ amenPc' = "rerun"
  /\ UNCHANGED <<amenRow, amenOut, enrVars, keyVars, treeVars, flatVars, sanVars, scrapeVars>>

NextEnrich == Enrich \/ EnrichAgain \/ Extract \/ ExtractAgain

SpecEnrich == InitEnrich /\ [][NextEnrich]_vars

\* ------------------------------------------------------------------------
\* Command line (scrape.py, run_cli): fetch, limit, write
\* ------------------------------------------------------------------------
\* line 160: max(0, int(args.limit))
cli_limit(n) == IF n > 0 THEN n ELSE 0

\* xs[:n] for n >= 0
py_slice_to(xs, n) == SubSeq(xs, 1, IF n < Len(xs) THEN n ELSE Len(xs))

limited_no_slice(raw, limit) == raw

\* lines 243-245: data = data_raw[:limit] if it is a list and limit is truthy
limited(raw, limit) ==
  IF raw.t = "list" /\ limit # 0 THEN List(py_slice_to(raw.items, limit)) ELSE raw

\* lines 100-108: the extensions write_output accepts
SupportedExt == {<<".","j","s","o","n">>, <<".","c","s","v">>}

Rec(i) == Dict(<<<<"id", PyInt(i)>>>>)

\* what a fetcher returns: a list of records, or a single mapping or None
RawInputs ==
  {List([i \in 1..n |-> Rec(i)]) : n \in 0..MaxRaw} \union {Rec(1), None}

InitCli ==
  /\ args_limit \in -1..MaxLimit
  /\ out_ext \in SupportedExt \union {<<".","t","x","t">>}
  /\ data_raw = List(<<>>)
  /\ written = None
  /\ cliPc = "start"
  /\ IdleKey
  /\ IdleTree
  /\ IdleFlatten
  /\ IdleSanitize
  /\ IdleEnrich
  /\ IdlePages
  /\ IdleFetch

\* lines 178-208: the fetcher of the chosen source returns
FetchReturns ==
  /\ cliPc = "start"
  /\ data_raw' \in RawInputs
  /\ cliPc' = "fetched"
  /\ UNCHANGED <<args_limit, out_ext, written>>
  /\ UNCHANGED <<keyVars, treeVars, flatVars, sanVars, enrVars, amenVars, pageVars, fetchVars>>

\* lines 210-237: the fetcher raises, the run exits without writing
FetchRaises ==
  /\ cliPc = "start"
  /\ cliPc' = "exit"
  /\ UNCHANGED <<args_limit, out_ext, data_raw, written>>
  /\ UNCHANGED <<keyVars, treeVars, flatVars, sanVars, enrVars, amenVars, pageVars, fetchVars>>

\* lines 241-248: limit applied, write_output(data, out_path)
WriteOutput ==
  /\ cliPc = "fetched"
  /\ IF out_ext \in SupportedExt
     THEN /\ written' = limited(data_raw, cli_limit(args_limit))
          /\ cliPc' = "written"
     ELSE /\ written' = written
          /\ cliPc' = "exit"
  /\ UNCHANGED <<args_limit, out_ext, data_raw>>
  /\ UNCHANGED <<keyVars, treeVars, flatVars, sanVars, enrVars, amenVars, pageVars, fetchVars>>

NextCli == FetchReturns \/ FetchRaises \/ WriteOutput

SpecCli == InitCli /\ [][NextCli]_vars

\* ------------------------------------------------------------------------
\* MHVillage search pagination (scraper/mhvillage.py, lines 70-92)
\* ------------------------------------------------------------------------
\* line 89: the offset after which no further page is requested
OFFSET_CAP == 5000

\* line 81: search.get("payload") or []
page_parks(search) == py_or(dict_get(search, "payload", None), List(<<>>))

\* line 86: int(search.get("total") or 0)
page_total(search) == py_int(py_or(dict_get(search, "total", None), PyInt(0)))

stop_after_late_cap(t, off, n, maxp) ==
  \/ truthy(t) /\ off >= t.n
  \/ truthy(maxp) /\ n >= maxp.n
  \/ off > 2 * OFFSET_CAP

\* line 89
stop_after(t, off, n, maxp) ==
  \/ truthy(t) /\ off >= t.n
  \/ truthy(maxp) /\ n >= maxp.n
  \/ off > OFFSET_CAP

\* line 92: [p.get("key") for p in all_parks if isinstance(p, dict) and p.get("key")]
keys_of(parks) ==
  LET keyed == SelectSeq(parks, LAMBDA p : p.t = "dict" /\ truthy(dict_get(p, "key", None)))
  IN  [i \in 1..Len(keyed) |-> dict_get(keyed[i], "key", None)]

Park(n) == Dict(<<<<"key", PyInt(n)>>>>)

Missing == [t |-> "missing"]

\* the payloads a search page carries when n parks were read before it
Payloads(n) ==
  { Missing, None, List(<<>>), Str(<<"x">>),
    List(<<Park(n + 1)>>), List(<<Dict(<<>>), Park(n + 2)>>) }

\* the totals a search page reports
Totals ==
  { Missing, PyInt(0), PyInt(OFFSET_CAP \div 2), PyInt(2 * OFFSET_CAP),
    Str(IntToDigits(OFFSET_CAP)), T_na }

SearchBody(p, t) ==
  Dict((IF p = Missing THEN <<>> ELSE <<<<"payload", p>>>>)
       \o (IF t = Missing THEN <<>> ELSE <<<<"total", t>>>>))

\* how the search endpoint answers: the request fails, the body is not
\* JSON, the body is JSON but not a mapping, or it is a search mapping
Answers == {"error", "text", "array", "search"}

PageSizes ==
  {OFFSET_CAP \div k : k \in 1..MaxSteps} \union {OFFSET_CAP \div k + 1 : k \in 1..MaxSteps}

InitPages ==
  /\ page_limit \in PageSizes
  /\ max_pages \in {None} \union {PyInt(n) : n \in 0..MaxPages}
  /\ offset = 0
  /\ pages = 0
  /\ total = None
  /\ all_parks = <<>>
  /\ park_keys = <<>>
  /\ requests = 0
  /\ pagePc = "request"
  /\ IdleKey
  /\ IdleTree
  /\ IdleFlatten
  /\ IdleSanitize
  /\ IdleEnrich
  /\ IdleCli
  /\ IdleFetch

\* lines 82-90 for a page whose payload is a non-empty list
PageRead(search) ==
  /\ all_parks' = all_parks \o page_parks(search).items
  /\ IF page_total(search).st # "ok"
     THEN /\ pagePc' = "raised"
          /\ UNCHANGED <<offset, pages, total, park_keys>>
     ELSE /\ total' = page_total(search).v
          /\ offset' = offset + page_limit
          /\ pages' = pages + 1
          /\ IF stop_after(total', offset', pages', max_pages)
             THEN pagePc' = "stopped" /\ park_keys' = keys_of(all_parks')
             ELSE pagePc' = "request" /\ park_keys' = park_keys

\* lines 73-92: one pass of the loop, and line 92 when the loop is left
PageRequest ==
  /\ pagePc = "request"
  /\ requests' = requests + 1
  /\ \E answer \in Answers, p \in Payloads(Len(all_parks)), t \in Totals :
       IF answer \in {"error", "array"}
       THEN /\ pagePc' = "raised"
            /\ UNCHANGED <<offset, pages, total, all_parks, park_keys>>
       ELSE IF answer = "text"
       THEN /\ pagePc' = "unparseable"
            /\ park_keys' = keys_of(all_parks)
            /\ UNCHANGED <<offset, pages, total, all_parks>>
       ELSE IF page_parks(SearchBody(p, t)).t # "list" \/ ~truthy(page_parks(SearchBody(p, t)))
       THEN /\ pagePc' = "no_parks"
            /\ park_keys' = keys_of(all_parks)
            /\ UNCHANGED <<offset, pages, total, all_parks>>
       ELSE PageRead(SearchBody(p, t))
  /\ UNCHANGED <<page_limit, max_pages>>
  /\ UNCHANGED <<keyVars, treeVars, flatVars, sanVars, enrVars, amenVars, cliVars, fetchVars>>

NextPages == PageRequest

\* every request to the search endpoint is answered or fails
SpecPages == InitPages /\ [][NextPages]_vars /\ WF_vars(PageRequest)

\* ------------------------------------------------------------------------
\* Concurrent detail fetch (scraper/rivcoview.py lines 59-107,
\* scraper/mhvillage.py lines 92-114)
\* ------------------------------------------------------------------------
\* asyncio.Semaphore(10): rivcoview.py line 72, mhvillage.py line 96
SEM_LIMIT == 10

\* the field of an error record that carries the key
key_field(f) == IF f = "rivcoview" THEN <<"p","i","n">> ELSE <<"k","e","y">>

\* rivcoview.py line 82, mhvillage.py line 106
error_raw(f, k, text) ==
  Dict(<<<<<<"e","r","r","o","r">>, Bool(TRUE)>>, <<key_field(f), k>>, <<<<"r","a","w">>, text>>>>)

\* rivcoview.py line 84, mhvillage.py line 108
error_message(f, k, message) ==
  Dict(<<<<<<"e","r","r","o","r">>, Bool(TRUE)>>, <<key_field(f), k>>, <<<<"m","e","s","s","a","g","e">>, message>>>>)

\* rivcoview.py lines 76-84, mhvillage.py lines 100-108: what fetch_one
\* returns for the reply to its request
fetch_one(f, k, r) ==
  IF r.kind = "error" THEN error_message(f, k, r.body)
  ELSE IF r.kind = "text" THEN error_raw(f, k, r.body)
  ELSE r.body

\* rivcoview.py line 63
row_apns(rs) ==
  LET keyed == SelectSeq(rs, LAMBDA r : r.t = "dict" /\ truthy(dict_get(r, <<"a","p","n">>, None)))
  IN  [i \in 1..Len(keyed) |-> dict_get(keyed[i], <<"a","p","n">>, None)]

\* rivcoview.py line 67: the dict comprehension, a repeated APN takes the
\* city of its last row
RECURSIVE city_by_apn(_, _)
city_by_apn(rs, n) ==
  IF n = 0 THEN <<>>
  ELSE IF rs[n].t = "dict" /\ truthy(dict_get(rs[n], <<"a","p","n">>, None))
  THEN dict_set(city_by_apn(rs, n - 1), dict_get(rs[n], <<"a","p","n">>, None),
                dict_get(rs[n], <<"s","i","t","u","s","_","c","i","t","y">>, None))
  ELSE city_by_apn(rs, n - 1)

\* d.setdefault(k, v)
setdefault_overwrite(d, k, v) == Dict(dict_set(d.items, k, v))

\* d.setdefault(k, v)
setdefault(d, k, v) ==
  IF \E i \in 1..Len(d.items) : d.items[i][1] = k THEN d
  ELSE Dict(Append(d.items, <<k, v>>))

\* rivcoview.py lines 98-103
attach_city(rec, city) ==
  IF rec.t = "dict" THEN setdefault(rec, <<"c","i","t","y">>, city)
  ELSE IF rec.t = "list"
  THEN List([i \in 1..Len(rec.items) |->
               IF rec.items[i].t = "dict" THEN setdefault(rec.items[i], <<"c","i","t","y">>, city)
               ELSE rec.items[i]])
  ELSE rec

\* rivcoview.py lines 92-105
join_cities(details, apns, cities) ==
  [idx \in 1..Len(details) |->
     IF truthy(dict_get(Dict(cities), apns[idx], None))
     THEN attach_city(details[idx], dict_get(Dict(cities), apns[idx], None))
     ELSE details[idx]]

gathered_reversed(rs) == [i \in 1..Len(rs) |-> rs[Len(rs) + 1 - i]]

\* asyncio.gather(*tasks): the results in the order of the tasks
gathered(rs) == rs

\* rivcoview.py lines 89-107, mhvillage.py lines 113-114
fetch_return(f, rs, details) ==
  IF f = "rivcoview"
  THEN normalize_keys(List(join_cities(details, row_apns(rs), city_by_apn(rs, Len(rs)))))
  ELSE normalize_keys(List(details))

sem_locked_never == FALSE

\* Semaphore.locked(): no permit left, or a waiter is queued
sem_locked == sem_value = 0 \/ sem_waiters # <<>>

\* Semaphore._wake_up_next(): the first queued task that was not woken
\* yet, 0 when there is none
first_waiting(ws, tk) ==
  IF \E k \in 1..Len(ws) : tk[ws[k]] = "waiting"
  THEN ws[CHOOSE k \in 1..Len(ws) :
            tk[ws[k]] = "waiting" /\ \A j \in 1..(k - 1) : tk[ws[j]] # "waiting"]
  ELSE 0

\* ---- inputs ----
City_X == Str(<<"X">>)

City_Y == Str(<<"Y">>)

City_Z == Str(<<"Z">>)

Apn(n) == Str(<<"A">> \o IntToDigits(n))

SearchRow(n, city) == Dict(<<<<<<"a","p","n">>, Apn(n)>>, <<<<"s","i","t","u","s","_","c","i","t","y">>, city>>>>)

\* search rows: two rows of one APN with different cities, a row without
\* situs_city, a row without APN and an item that is not a mapping
RowSamples ==
  { SearchRow(1, City_X), SearchRow(1, City_Y),
    SearchRow(2, City_Y),
    Dict(<<<<<<"a","p","n">>, Apn(2)>>>>),
    Dict(<<<<<<"s","i","t","u","s","_","c","i","t","y">>, City_X>>>>),
    Str(<<"x">>) }

\* the replies to the detail requests: a mapping without and with a city,
\* a list of items, a body that is not JSON, a failed request
ReplySeq ==
  << [kind |-> "json", body |-> Dict(<<<<<<"O","w","n","e","r","_","N","a","m","e">>, Str(<<"o">>)>>>>)],
     [kind |-> "text", body |-> Str(<<"<","h","t","m","l",">">>)],
     [kind |-> "json", body |-> Dict(<<<<<<"c","i","t","y">>, City_Z>>>>)],
     [kind |-> "error", body |-> Str(<<"t","i","m","e","o","u","t">>)],
     [kind |-> "json",
      body |-> List(<<Dict(<<<<<<"O","w","n","e","r","_","N","a","m","e">>, Str(<<"o">>)>>>>),
                      Dict(<<<<<<"c","i","t","y">>, City_Z>>>>), Str(<<"x">>)>>)] >>

\* the reply to the request of task i
reply(i) == ReplySeq[((i + reply_shift) % Len(ReplySeq)) + 1]

\* enough rows, of distinct APNs, to use up the semaphore's permits
ManyRows(n) == [i \in 1..n |-> SearchRow(i, City_X)]

InitFetch ==
  /\ \/ /\ fetcher = "rivcoview"
        /\ rows \in SeqsUpTo(RowSamples, MaxRows)
        /\ pins = <<>>
        /\ reply_shift \in 0..(Len(ReplySeq) - 1)
     \/ /\ fetcher = "mhvillage"
        /\ rows = <<>>
        /\ pins \in SeqsUpTo({PyInt(7), PyInt(8)}, MaxRows)
        /\ reply_shift \in 0..(Len(ReplySeq) - 1)
     \/ /\ fetcher = "rivcoview"
        /\ rows \in {ManyRows(SEM_LIMIT + n) : n \in 1..MaxExtra}
        /\ pins = <<>>
        /\ reply_shift = 0
  /\ task = <<>>
  /\ sem_value = SEM_LIMIT
  /\ sem_waiters = <<>>
  /\ results = <<>>
  /\ overtaken = FALSE
  /\ fetchOut = None
  /\ fetchPc = "start"
  /\ IdleKey
  /\ IdleTree
  /\ IdleFlatten
  /\ IdleSanitize
  /\ IdleEnrich
  /\ IdleCli
  /\ IdlePages

\* the keys to fetch: rivcoview.py line 63, mhvillage.py line 92
keys_to_fetch == IF fetcher = "rivcoview" THEN row_apns(rows) ELSE pins

\* rivcoview.py lines 59-65 and 86-89, mhvillage.py lines 110-113: without
\* keys the fetcher returns [], otherwise one task per key is created
Gather ==
  /\ fetchPc = "start"
  /\ pins' = keys_to_fetch
  /\ IF pins' = <<>>
     THEN /\ fetchOut' = List(<<>>)
          /\ fetchPc' = "returned"
          /\ UNCHANGED <<task, results>>
     ELSE /\ task' = [i \in 1..Len(pins') |-> "new"]
          /\ results' = [i \in 1..Len(pins') |-> None]
          /\ fetchPc' = "gather"
          /\ fetchOut' = fetchOut
  /\ UNCHANGED <<fetcher, rows, reply_shift, sem_value, sem_waiters, overtaken>>
  /\ UNCHANGED <<keyVars, treeVars, flatVars, sanVars, enrVars, amenVars, cliVars, pageVars>>

\* the first step of task i, tasks start in the order of their creation:
\* `async with sem` takes a permit and the request is sent
Acquire(i) ==
  /\ fetchPc = "gather"
  /\ task[i] = "new"
  /\ \A j \in 1..(i - 1) : task[j] # "new"
  /\ ~sem_locked
  /\ sem_value' = sem_value - 1
  /\ task' = [task EXCEPT ![i] = "inflight"]
  /\ UNCHANGED <<fetcher, rows, pins, reply_shift, sem_waiters, results, overtaken, fetchOut,
                 fetchPc>>
  /\ UNCHANGED <<keyVars, treeVars, flatVars, sanVars, enrVars, amenVars, cliVars, pageVars>>

\* the first step of task i when the semaphore is locked: it queues
Enqueue(i) ==
  /\ fetchPc = "gather"
  /\ task[i] = "new"
  /\ \A j \in 1..(i - 1) : task[j] # "new"
  /\ sem_locked
  /\ sem_waiters' = Append(sem_waiters, i)
  /\ task' = [task EXCEPT ![i] = "waiting"]
  /\ UNCHANGED <<fetcher, rows, pins, reply_shift, sem_value, results, overtaken, fetchOut,
                 fetchPc>>
  /\ UNCHANGED <<keyVars, treeVars, flatVars, sanVars, enrVars, amenVars, cliVars, pageVars>>

\* the request of task i is answered or fails, after every task took its
\* first step: the permit is released, which wakes the first queued task,
\* and fetch_one returns
Complete(i) ==
  /\ fetchPc = "gather"
  /\ task[i] = "inflight"
  /\ \A j \in 1..Len(task) : task[j] # "new"
  /\ LET woken == first_waiting(sem_waiters, task)
     IN  /\ task' = [j \in 1..Len(task) |->
                       IF j = i THEN "done" ELSE IF j = woken THEN "woken" ELSE task[j]]
         /\ sem_value' = IF woken = 0 THEN sem_value + 1 ELSE sem_value
  /\ results' = [results EXCEPT ![i] = fetch_one(fetcher, pins[i], reply(i))]
  /\ overtaken' = (overtaken \/ \E j \in 1..(i - 1) : task[j] # "done")
  /\ UNCHANGED <<fetcher, rows, pins, reply_shift, sem_waiters, fetchOut, fetchPc>>
  /\ UNCHANGED <<keyVars, treeVars, flatVars, sanVars, enrVars, amenVars, cliVars, pageVars>>

\* a woken task resumes in acquire(): it leaves the queue, passes a spare
\* permit on to the next queued task, and its request is sent
Resume(i) ==
  /\ fetchPc = "gather"
  /\ task[i] = "woken"
  /\ sem_waiters' = SelectSeq(sem_waiters, LAMBDA j : j # i)
  /\ LET woken == IF sem_value > 0 THEN first_waiting(sem_waiters', task) ELSE 0
     IN  /\ task' = [j \in 1..Len(task) |->
                       IF j = i THEN "inflight" ELSE IF j = woken THEN "woken" ELSE task[j]]
         /\ sem_value' = IF woken = 0 THEN sem_value ELSE sem_value - 1
  /\ UNCHANGED <<fetcher, rows, pins, reply_shift, results, overtaken, fetchOut, fetchPc>>
  /\ UNCHANGED <<keyVars, treeVars, flatVars, sanVars, enrVars, amenVars, cliVars, pageVars>>

\* every task is done: gather returns, rivcoview joins the cities, the keys
\* are normalized
Return ==
  /\ fetchPc = "gather"
  /\ \A i \in 1..Len(task) : task[i] = "done"
  /\ fetchOut' = fetch_return(fetcher, rows, gathered(results))
  /\ fetchPc' = "returned"
  /\ UNCHANGED <<fetcher, rows, pins, reply_shift, task, sem_value, sem_waiters, results,
                 overtaken>>
  /\ UNCHANGED <<keyVars, treeVars, flatVars, sanVars, enrVars, amenVars, cliVars, pageVars>>

NextFetch ==
  \/ Gather
  \/ \E i \in 1..Len(task) : Acquire(i)
  \/ \E i \in 1..Len(task) : Enqueue(i)
  \/ \E i \in 1..Len(task) : Complete(i)
  \/ \E i \in 1..Len(task) : Resume(i)
  \/ Return

SpecFetch == InitFetch /\ [][NextFetch]_vars

\* the event loop runs every ready task, and every request is answered or
\* fails
SpecFetchFair ==
  /\ InitFetch /\ [][NextFetch]_vars
  /\ WF_vars(\E i \in 1..Len(task) : Acquire(i))
  /\ WF_vars(\E i \in 1..Len(task) : Enqueue(i))
  /\ WF_vars(\E i \in 1..Len(task) : Complete(i))
  /\ WF_vars(\E i \in 1..Len(task) : Resume(i))
  /\ WF_vars(Gather)

\* ------------------------------------------------------------------------
\* Key normalizer properties
\* ------------------------------------------------------------------------

\* C1: for every string s, to_camel_case(to_camel_case(s)) = to_camel_case(s)
C1_Idempotent == keyPc = "twice" => keyOut2 = keyOut

\* the key after trimming and removal of one trailing "__c"
KeyCore(k) ==
  LET s0 == str_strip(k)
  IN  IF str_endswith(s0, SUFFIX) THEN SubSeq(s0, 1, Len(s0) - 3) ELSE s0

HasAlnum(s) == \E i \in 1..Len(s) : IsAlnum(s[i])

AllAlnum(s) == \A i \in 1..Len(s) : IsAlnum(s[i])

\* C2 as stated: the result is empty exactly when the key has no ASCII
\* alphanumeric after trimming and suffix removal, and otherwise matches
\* ^[a-z][a-zA-Z0-9]*$
C2_Original ==
  keyPc = "once" =>
    /\ (keyOut = <<>>) <=> ~HasAlnum(KeyCore(key))
    /\ keyOut # <<>> => IsLower(keyOut[1]) /\ AllAlnum(keyOut)

\* C2 amended: the result is empty exactly when the key has no ASCII
\* alphanumeric after trimming and suffix removal, and otherwise matches
\* ^[a-z0-9][a-zA-Z0-9]*$: it starts with a lowercase letter or a digit
\* and contains only letters and digits
C2_CanonicalShape ==
  keyPc = "once" =>
    /\ (keyOut = <<>>) <=> ~HasAlnum(KeyCore(key))
    /\ keyOut # <<>> =>
         /\ IsLower(keyOut[1]) \/ keyOut[1] \in Digit
         /\ AllAlnum(keyOut)

\* a key holding a separator has been normalized to a result whose first
\* token starts with a digit and is followed by a capitalized token
C2_Witness ==
  /\ keyPc = "once"
  /\ Len(keyOut) >= 2
  /\ keyOut[1] \in Digit
  /\ IsUpper(keyOut[2])
  /\ \E i \in 1..Len(key) : ~IsAlnum(key[i])

\* The seven-step reference algorithm, position by position.
RECURSIVE RefConcat(_, _)
RefConcat(f, n) == IF n = 0 THEN <<>> ELSE RefConcat(f, n - 1) \o f[n]

RECURSIVE RefTrim(_)
RefTrim(s) ==
  IF s = <<>> THEN s
  ELSE IF s[1] = " " THEN RefTrim(Tail(s))
  ELSE IF s[Len(s)] = " " THEN RefTrim(SubSeq(s, 1, Len(s) - 1))
  ELSE s

RefDropSuffix(s) ==
  IF Len(s) >= 3 /\ SubSeq(s, Len(s) - 2, Len(s)) = <<"_", "_", "c">>
  THEN SubSeq(s, 1, Len(s) - 3) ELSE s

RefBoundary(s, i) ==
  /\ i < Len(s)
  /\ IsLower(s[i]) \/ s[i] \in Digit
  /\ IsUpper(s[i + 1])

RefHumps(s) ==
  RefConcat([i \in 1..Len(s) |->
               IF RefBoundary(s, i) THEN <<s[i], " ">> ELSE <<s[i]>>], Len(s))

RefRuns(s) ==
  RefConcat([i \in 1..Len(s) |->
               IF IsAlnum(s[i]) THEN <<s[i]>>
               ELSE IF i = 1 \/ IsAlnum(s[i - 1]) THEN <<" ">> ELSE <<>>],
            Len(s))

RefTokenEnd(s, i) ==
  LET ends == {j \in i..Len(s) : j = Len(s) \/ s[j + 1] = " "}
  IN  CHOOSE j \in ends : \A k \in ends : j <= k

RefTokens(s) ==
  RefConcat([i \in 1..Len(s) |->
               IF s[i] # " " /\ (i = 1 \/ s[i - 1] = " ")
               THEN <<SubSeq(s, i, RefTokenEnd(s, i))>> ELSE <<>>], Len(s))

RefCase(toks, i) ==
  IF i = 1 THEN [j \in 1..Len(toks[1]) |-> chr_lower(toks[1][j])]
  ELSE [j \in 1..Len(toks[i]) |->
          IF j = 1 THEN chr_upper(toks[i][j]) ELSE chr_lower(toks[i][j])]

RefNormalizeKey(k) ==
  LET toks == RefTokens(RefRuns(RefHumps(RefDropSuffix(RefTrim(k)))))
  IN  RefConcat([i \in 1..Len(toks) |-> RefCase(toks, i)], Len(toks))

K_salePrice == <<"s","a","l","e","P","r","i","c","e">>

K_multiWord == <<"m","u","l","t","i","W","o","r","d">>

\* C3: to_camel_case returns what the seven-step reference algorithm
\* returns, and the four listed examples give salePrice, golfCourse,
\* multiWord and the empty string
C3_MatchesReference ==
  /\ keyPc # "start" => keyOut = RefNormalizeKey(key)
  /\ keyPc = "twice" => keyOut2 = RefNormalizeKey(keyOut)
  /\ keyPc # "start" /\ key = K_SALE_PRICE => keyOut = K_salePrice
  /\ keyPc # "start" /\ key = K_golfCourse => keyOut = K_golfCourse
  /\ keyPc # "start" /\ key = K_multi_word => keyOut = K_multiWord
  /\ keyPc # "start" /\ key = K_underscores => keyOut = <<>>

\* the suffixed upper-case example has been normalized
C3_Witness == keyPc = "once" /\ key = K_SALE_PRICE /\ keyOut = K_salePrice

\* ------------------------------------------------------------------------
\* Tree normalizer properties
\* ------------------------------------------------------------------------
RECURSIVE SameShape(_, _)
SameShape(in, out) ==
  IF in.t = "dict"
  THEN /\ out.t = "dict"
       /\ Len(out.items) = Len(in.items)
       /\ \A i \in 1..Len(in.items) :
            /\ out.items[i][1] = to_camel_case(in.items[i][1])
            /\ SameShape(in.items[i][2], out.items[i][2])
  ELSE IF in.t = "list"
  THEN /\ out.t = "list"
       /\ Len(out.items) = Len(in.items)
       /\ \A i \in 1..Len(in.items) : SameShape(in.items[i], out.items[i])
  ELSE out = in

\* C4 as stated: every list keeps its length and order, every mapping keeps
\* its number of entries with each key replaced by to_camel_case(key) and
\* each value recursively normalized, every other value is unchanged
C4_Original == treePc = "done" => SameShape(tree, treeOut)

\* positions of the entries of a mapping whose key normalizes to k
EntriesFor(in, k) == {i \in 1..Len(in.items) : to_camel_case(in.items[i][1]) = k}

MinOf(S) == CHOOSE i \in S : \A j \in S : i <= j

MaxOf(S) == CHOOSE i \in S : \A j \in S : i >= j

RECURSIVE MergedShape(_, _)
MergedShape(in, out) ==
  IF in.t = "dict"
  THEN /\ out.t = "dict"
       /\ Len(out.items) <= Len(in.items)
       /\ {out.items[j][1] : j \in 1..Len(out.items)}
            = {to_camel_case(in.items[i][1]) : i \in 1..Len(in.items)}
       /\ \A j1, j2 \in 1..Len(out.items) :
            j1 < j2 =>
              /\ out.items[j1][1] # out.items[j2][1]
              /\ MinOf(EntriesFor(in, out.items[j1][1]))
                   < MinOf(EntriesFor(in, out.items[j2][1]))
       /\ \A j \in 1..Len(out.items) :
            MergedShape(in.items[MaxOf(EntriesFor(in, out.items[j][1]))][2],
                        out.items[j][2])
  ELSE IF in.t = "list"
  THEN /\ out.t = "list"
       /\ Len(out.items) = Len(in.items)
       /\ \A i \in 1..Len(in.items) : MergedShape(in.items[i], out.items[i])
  ELSE out = in

\* what normalize_keys does on colliding keys: a mapping becomes a mapping
\* with one entry per distinct to_camel_case(key), in order of first
\* occurrence, whose value is the normalized value of the last input entry
\* with that normalized key; lists and other values are as C4 states
C4_StructureUpToKeyMerge == treePc = "done" => MergedShape(tree, treeOut)

\* a mapping nested inside a mapping has lost an entry to a key collision
C4_Witness ==
  /\ treePc = "done"
  /\ tree.t = "dict"
  /\ \E i \in 1..Len(tree.items) :
       /\ tree.items[i][2].t = "dict"
       /\ Len(tree.items[i][2].items) = 2
       /\ \E j \in 1..Len(treeOut.items) :
            /\ treeOut.items[j][2].t = "dict"
            /\ Len(treeOut.items[j][2].items) = 1
            /\ treeOut.items[j][2].items[1][2] = Str(K_a_b)

\* ------------------------------------------------------------------------
\* Flattener properties
\* ------------------------------------------------------------------------
Mappings(xs) == SelectSeq(xs, LAMBDA v : v.t = "dict")

\* what one element of a list payload contributes, as the claim words it
Contribution(item) ==
  IF item.t = "dict" THEN <<item>>
  ELSE IF item.t = "list" THEN Mappings(item.items)
  ELSE IF item.t = "str"
  THEN LET r == json_loads(item.s)
       IN  IF r.st = "ok" /\ r.v.t = "dict" THEN <<r.v>>
           ELSE IF r.st = "ok" /\ r.v.t = "list" THEN Mappings(r.v.items)
           ELSE <<>>
  ELSE <<>>

RECURSIVE Contributions(_, _)
Contributions(items, n) ==
  IF n = 0 THEN <<>>
  ELSE Contributions(items, n - 1) \o Contribution(items[n])

\* C5: for a list payload the function returns the concatenation, in input
\* order, of each element's contribution
C5_Original ==
  flatPc # "start" /\ data.t = "list" =>
    /\ flatPc = "returned"
    /\ flatOut = Contributions(data.items, Len(data.items))

Range(xs) == {xs[i] : i \in 1..Len(xs)}

\* the value a str decodes to, if it decodes
Decoded(v) ==
  IF v.t = "str" /\ json_loads(v.s).st = "ok" THEN {json_loads(v.s).v} ELSE {}

\* the elements of the payload list, and what its str elements decode to
Level1(d) == Range(d.items) \cup UNION {Decoded(v) : v \in Range(d.items)}

\* what sits directly inside a list of level 1
Level2(d) == UNION {Range(v.items) : v \in {w \in Level1(d) : w.t = "list"}}

\* what sits inside a list of level 2, or is the decoding of a str of level 2
Level3(d) ==
  UNION {Range(v.items) : v \in {w \in Level2(d) : w.t = "list"}}
    \cup UNION {Decoded(v) : v \in Level2(d)}

\* C6: one level of nesting only: every output record is a mapping, and no
\* value that occurs only two levels down (inside a list inside a list of the
\* payload, or encoded in a str inside a nested list) is in the output
C6_OneLevelOnly ==
  flatPc = "returned" /\ data.t = "list" =>
    \A k \in 1..Len(flatOut) :
      /\ flatOut[k].t = "dict"
      /\ flatOut[k] \in Level1(data) \cup Level2(data)
      /\ flatOut[k] \notin Level3(data) \ (Level1(data) \cup Level2(data))

\* a payload with a mapping two levels down and a str inside a nested list
\* has been flattened, and its nested list contributed its own mappings
C6_Witness ==
  /\ flatPc = "returned"
  /\ data.t = "list"
  /\ R_deep \in Level3(data)
  /\ R_f \in Level3(data)
  /\ R_e \in Level3(data)
  /\ R_b \in Range(flatOut)
  /\ R_d \in Range(flatOut)

\* C7: a single mapping gives a one-element list holding it, and a payload
\* that is neither a list nor a mapping gives the empty list
C7_SingleOrOther ==
  flatPc # "start" /\ data.t # "list" =>
    /\ flatPc = "returned"
    /\ data.t = "dict" => flatOut = <<data>>
    /\ data.t # "dict" => flatOut = <<>>

\* a single non-empty mapping has been flattened
C7_Witness ==
  /\ flatPc = "returned"
  /\ data = R_a
  /\ flatOut = <<R_a>>

\* C8: flatten_records_maybe never raises
C8_NeverRaises == flatPc # "raised"

\* ------------------------------------------------------------------------
\* Sanitizer properties
\* ------------------------------------------------------------------------
OutNames == [i \in 1..Len(sanOut) |-> sanOut[i].name]

\* C9: for a non-empty input the returned table has at most max_cols columns
C9_AtMostMaxCols ==
  sanPc = "done" /\ ~df_empty(df) => Len(sanOut) <= max_cols

\* a non-empty table with more safe columns than max_cols was truncated,
\* and so was a table without any safe column
C9_Witness ==
  /\ sanPc = "done"
  /\ ~df_empty(df)
  /\ max_cols >= 1
  /\ Len(df) > max_cols
  /\ Len(sanOut) = max_cols
  /\ \A i \in 1..Len(df) : ~is_safe(clean_column(df[i].cells))

IsPreferred(c) == prefer_cols.t = "list" /\ InSeq(c, prefer_cols.items)

\* a is b with some entries left out
RECURSIVE IsSubSequence(_, _)
IsSubSequence(a, b) ==
  IF a = <<>> THEN TRUE
  ELSE IF b = <<>> THEN FALSE
  ELSE IF Head(a) = Head(b) THEN IsSubSequence(Tail(a), Tail(b))
  ELSE IsSubSequence(a, Tail(b))

\* in the output no column outside the preferred list stands before a
\* preferred one, and the preferred columns of the output are entries of
\* the preferred list in the order of that list
PreferredFirst ==
  /\ \A i, j \in 1..Len(sanOut) :
       i < j /\ IsPreferred(OutNames[j]) => IsPreferred(OutNames[i])
  /\ prefer_cols.t = "list" =>
       IsSubSequence(SelectSeq(OutNames, IsPreferred), prefer_cols.items)

\* C10 as stated: in every output the preferred columns of the table come
\* before every other output column, in the order of the preferred list
C10_Original == sanPc = "done" => PreferredFirst

HasSafeColumn == \E i \in 1..Len(df) : is_safe(clean_column(df[i].cells))

\* C10 amended: for a non-empty table with at least one render-safe column,
\* every output column that is in the preferred list comes before every
\* output column that is not, and the preferred columns appear in the order
\* the preferred list gives them; an empty table is returned as it is and a
\* table without a safe column keeps its original column order
C10_PreferredFirstWhenSafe ==
  sanPc = "done" /\ ~df_empty(df) /\ HasSafeColumn => PreferredFirst

\* a preferred column that stood last in the table has been moved in front
\* of a safe column that is not preferred
C10_Witness ==
  /\ sanPc = "done"
  /\ ~df_empty(df)
  /\ Len(sanOut) >= 2
  /\ IsPreferred(OutNames[1])
  /\ ~IsPreferred(OutNames[2])
  /\ df[Len(df)].name = OutNames[1]
  /\ df[1].name = OutNames[2]

\* ------------------------------------------------------------------------
\* Sanitizer properties: coercion threshold and render-safe columns
\* ------------------------------------------------------------------------
IsNumericText(v) ==
  v.t = "str" /\ v.s # <<>> /\ \A i \in 1..Len(v.s) : v.s[i] \in Digit

\* the value coerces to a number
Coercible(v) == v.t \in {"num", "bool"} \/ IsNumericText(v)

NumCoercible(cells) == Cardinality({i \in 1..Len(cells) : Coercible(cells[i])})

NumNonNull(cells) == Cardinality({i \in 1..Len(cells) : cells[i] # None})

\* every cell has one kind among numbers, booleans, strings
Uniform(cells) ==
  \/ \A i \in 1..Len(cells) : cells[i].t \in {"num", "null"}
       /\ \E j \in 1..Len(cells) : cells[j].t = "num"
  \/ \A i \in 1..Len(cells) : cells[i].t = "bool"
  \/ \A i \in 1..Len(cells) : cells[i].t = "str"

\* out is the numeric coercion of src: a numeric column with numbers where
\* src coerces and missing values everywhere else
IsCoercionOf(out, src) ==
  /\ Len(out) = Len(src)
  /\ \E i \in 1..Len(out) : out[i].t = "num"
  /\ \A i \in 1..Len(src) :
       IF Coercible(src[i]) THEN out[i].t = "num" ELSE out[i] = None

\* more than nine tenths of the non-null values coerce
OverNineTenths(cells) ==
  /\ NumNonNull(cells) >= 1
  /\ \E m \in 1..(10 * Len(cells)) :
       10 * NumCoercible(cells) = 9 * NumNonNull(cells) + m

\* C11: a column that is not uniformly numeric, boolean or string is
\* replaced by its numeric coercion exactly when it has a non-null value and
\* strictly more than 90% of its non-null values coerce to a number
C11_StrictThreshold ==
  sanPc = "done" /\ ~df_empty(df) =>
    \A i \in 1..Len(sanOut) :
      LET src == ColumnOf(df, sanOut[i].name).cells
      IN  ~Uniform(src) =>
            (IsCoercionOf(sanOut[i].cells, src) <=> OverNineTenths(src))

\* a column with ten non-null values of which exactly nine coerce has been
\* returned without conversion
C11_Witness ==
  /\ sanPc = "done"
  /\ Len(df) = 1
  /\ Len(sanOut) = 1
  /\ NumNonNull(df[1].cells) = 10
  /\ NumCoercible(df[1].cells) = 9
  /\ ~Uniform(df[1].cells)
  /\ ~IsCoercionOf(sanOut[1].cells, df[1].cells)

RenderSafe(cells) ==
  \/ \A i \in 1..Len(cells) : cells[i].t \in {"num", "null"}
       /\ \E j \in 1..Len(cells) : cells[j].t = "num"
  \/ cells # <<>> /\ \A i \in 1..Len(cells) : cells[i].t = "bool"
  \/ cells # <<>> /\ \A i \in 1..Len(cells) : cells[i].t = "str"

\* C12 as stated: every column of the returned table is render-safe
C12_Original ==
  sanPc = "done" => \A i \in 1..Len(sanOut) : RenderSafe(sanOut[i].cells)

\* C12 amended: for a non-empty table that has at least one render-safe
\* column after coercion, every column of the returned table is
\* render-safe; an empty table is returned as it is, and a table without
\* any render-safe column is returned with its first max_cols columns
\* whatever their type
C12_RenderSafeWhenSafeExists ==
  sanPc = "done" /\ ~df_empty(df) /\ HasSafeColumn =>
    \A i \in 1..Len(sanOut) : RenderSafe(sanOut[i].cells)

\* a mixed column standing first in the table has been left out
C12_Witness ==
  /\ sanPc = "done"
  /\ ~df_empty(df)
  /\ Len(df) >= 2
  /\ max_cols >= Len(df)
  /\ ~RenderSafe(clean_column(df[1].cells))
  /\ Len(sanOut) >= 1
  /\ \A i \in 1..Len(sanOut) : sanOut[i].name # df[1].name

\* ------------------------------------------------------------------------
\* Summarizer properties: the last sale
\* ------------------------------------------------------------------------
\* enrich_rivco_row has returned for enrRow
EnrichReturned == enrPc \in {"returned", "rerun"}

EnrHas(k) == \E i \in 1..Len(enrOut.v.items) : enrOut.v.items[i][1] = k

EnrGet(k) == dict_get(enrOut.v, k, None)

\* the mapping entries of the row's sales list
MappingSales ==
  LET sales == dict_get(enrRow, "sales", None)
  IN  IF sales.t = "list" THEN DictsOf(sales.items) ELSE <<>>

Parseable(e) ==
  LET d == dict_get(e, "saledate", None)
  IN  d.t = "str" /\ to_datetime_text(d.s).t = "timestamp"

\* the parsed sale date of an entry, the earliest possible date when the
\* saledate is missing, empty or not a date
Rank(e) ==
  IF Parseable(e) THEN to_datetime_text(dict_get(e, "saledate", None).s).d
  ELSE TIMESTAMP_MIN

IsMaxRank(es, i) == \A j \in 1..Len(es) : Rank(es[j]) <= Rank(es[i])

\* the last-sale fields of the result are those of entry e
FromSale(e) ==
  LET raw == py_or(dict_get(e, "SalePrice", None), dict_get(e, "salePrice", None))
      text == str_strip(str_remove(str_remove(raw.s, "$"), ","))
  IN  /\ EnrGet("lastSaleDate") = dict_get(e, "saledate", None)
      /\ EnrGet("lastSaleQualified") =
           py_or(dict_get(e, "Qualified", None), dict_get(e, "qualified", None))
      /\ raw.t = "str" /\ AllDigits(text) =>
           EnrGet("lastSalePrice") = Float(DigitsToInt(text))

\* C13: when enrich_rivco_row returns, salesCount is the number of mapping
\* entries of the sales list (0 when sales is absent, empty or not a list),
\* and the last-sale fields come from a mapping entry whose parsed saledate
\* is the maximum over all mapping entries, the price read as a number once
\* "$" and "," are removed.
C13_Original ==
  EnrichReturned =>
    /\ EnrGet("salesCount") = PyInt(Len(MappingSales))
    /\ EnrHas("lastSaleDate") =>
         \E i \in 1..Len(MappingSales) :
           IsMaxRank(MappingSales, i) /\ FromSale(MappingSales[i])

\* the first mapping entry with the maximum parsed date
FirstMax(es) ==
  CHOOSE i \in 1..Len(es) :
    IsMaxRank(es, i) /\ \A j \in 1..(i - 1) : ~IsMaxRank(es, j)

SharedMaximum(es) ==
  \E i, j \in 1..Len(es) :
    i # j /\ Parseable(es[i]) /\ IsMaxRank(es, i) /\ Rank(es[j]) = Rank(es[i])

\* C14: when several sales entries share the maximum parsed sale date, the
\* last-sale fields come from the first of them in the sales list.
C14_Original ==
  EnrichReturned /\ SharedMaximum(MappingSales) =>
    EnrHas("lastSaleDate") /\ FromSale(MappingSales[FirstMax(MappingSales)])

\* C15: an entry whose saledate is missing, empty or not a date is the last
\* sale only if no other entry has a parseable date: when some mapping
\* entry has one, the entry chosen has one.
C15_Original ==
  EnrichReturned /\ (\E i \in 1..Len(MappingSales) : Parseable(MappingSales[i])) =>
    /\ EnrHas("lastSaleDate")
    /\ EnrGet("lastSaleDate").t = "str"
    /\ to_datetime_text(EnrGet("lastSaleDate").s).t = "timestamp"

\* ------------------------------------------------------------------------
\* Summarizer properties: the assessment history
\* ------------------------------------------------------------------------
\* the mapping entries of the row's history list
MappingHistory ==
  LET hist == dict_get(enrRow, "history", None)
  IN  IF hist.t = "list" THEN DictsOf(hist.items) ELSE <<>>

\* the integer tax year of an entry, 0 when it is missing or not an integer
YearOf(e) ==
  LET y == tax_year(e)
  IN  IF y.t = "int" THEN y.n
      ELSE IF y.t = "str" /\ AllDigits(str_strip(y.s)) THEN DigitsToInt(str_strip(y.s))
      ELSE 0

\* the entries that come after entry i in ascending year order, equal years
\* in list order
After(es, i) ==
  {j \in 1..Len(es) :
     YearOf(es[j]) > YearOf(es[i]) \/ (YearOf(es[j]) = YearOf(es[i]) /\ j > i)}

LatestIndex(es) == CHOOSE i \in 1..Len(es) : After(es, i) = {}

PrevIndex(es) == CHOOSE i \in 1..Len(es) : Cardinality(After(es, i)) = 1

AssessedOf(e) == num(assessed_tot(e)).v

HasAssessed ==
  EnrHas("assessedYearLatest") \/ EnrHas("assessedLatest") \/ EnrHas("assessedPrev")

\* no field of a sales or history entry is a list or a mapping
ScalarFields ==
  \A es \in {MappingSales, MappingHistory} :
    \A i \in 1..Len(es) :
      \A k \in 1..Len(es[i].items) : es[i].items[k][2].t \notin {"list", "dict"}

\* every mapping entry of history has an integer tax year, as an int or as
\* a text of digits, or none
IntegerYears ==
  \A i \in 1..Len(MappingHistory) :
    LET y == tax_year(MappingHistory[i])
    IN  y.t \in {"null", "int"} \/ (y.t = "str" /\ AllDigits(str_strip(y.s)))

\* C16: enrich_rivco_row returns for a row of scalar fields and integer tax
\* years, and when it returns the assessed* fields are present only if
\* history holds a mapping entry; assessedYearLatest and assessedLatest
\* come from the last mapping entry in ascending integer tax year (equal
\* years in list order), assessedPrev from the second-to-last, and
\* assessedPrev is null when there is only one entry.
C16_LatestFromYearOrder ==
  /\ enrPc # "start" /\ ScalarFields /\ IntegerYears => enrOut.st = "ok"
  /\ EnrichReturned =>
       LET es == MappingHistory
       IN  /\ HasAssessed => Len(es) >= 1
           /\ Len(es) >= 1 =>
                /\ EnrGet("assessedYearLatest") = py_str(tax_year(es[LatestIndex(es)]))
                /\ EnrGet("assessedLatest") = AssessedOf(es[LatestIndex(es)])
                /\ EnrHas("assessedPrev")
                /\ EnrGet("assessedPrev") =
                     IF Len(es) = 1 THEN None ELSE AssessedOf(es[PrevIndex(es)])

\* a returned summary of a history that is not in ascending year order
C16_Witness ==
  /\ EnrichReturned
  /\ ScalarFields /\ IntegerYears
  /\ Len(MappingHistory) >= 2
  /\ LatestIndex(MappingHistory) # Len(MappingHistory)
  /\ PrevIndex(MappingHistory) # Len(MappingHistory) - 1
  /\ EnrGet("assessedLatest").t = "float"
  /\ EnrGet("assessedPrev").t = "float"

\* C17: assessedYoYDelta and assessedYoYPct are output only when
\* assessedLatest and assessedPrev are both non-null and assessedPrev is
\* not 0; then the delta is latest - prev and the percentage is
\* delta / prev * 100; no division by zero is performed.
C17_GuardedYoY ==
  /\ enrOut.err # "ZeroDivisionError"
  /\ EnrichReturned /\ (EnrHas("assessedYoYDelta") \/ EnrHas("assessedYoYPct")) =>
       LET latest == EnrGet("assessedLatest")
           prev == EnrGet("assessedPrev")
           delta == EnrGet("assessedYoYDelta")
           pct == EnrGet("assessedYoYPct")
       IN  /\ latest.t = "float" /\ prev.t = "float" /\ prev.n # 0
           /\ delta.t = "float" /\ delta.n = latest.n - prev.n
           /\ pct.t = "quot" /\ pct.d # 0
           /\ pct.n = delta.n * 100 /\ pct.d = prev.n

\* a returned summary whose previous assessed value is 0.0
C17_Witness ==
  /\ EnrichReturned
  /\ EnrGet("assessedLatest").t = "float"
  /\ EnrGet("assessedPrev") = Float(0)
  /\ ~EnrHas("assessedYoYDelta")

\* C18: a history entry whose tax year is missing or not an integer is
\* ordered as tax year 0: the summary completes, and its latest entry is
\* the last one in that order.
C18_Original ==
  enrPc # "start" /\ ScalarFields /\ Len(MappingHistory) >= 1 =>
    /\ enrOut.st = "ok"
    /\ EnrGet("assessedLatest") = AssessedOf(MappingHistory[LatestIndex(MappingHistory)])

\* ------------------------------------------------------------------------
\* Enricher properties: totality and re-application
\* ------------------------------------------------------------------------
\* C19: enrich_rivco_row and extract_amenities never raise, whatever the
\* shape of the sales, history and details fields and of their entries.
C19_NeverRaise == enrPc # "raised" /\ amenPc # "raised"

\* the row without the columns the summarizer does not read
SummaryFields ==
  Dict(SelectSeq(enrRow.items, LAMBDA p : p[1] \in {"sales", "history"}))

\* the row without the columns the extractor does not read
DetailFields ==
  Dict(SelectSeq(amenRow.items, LAMBDA p : p[1] \in {PAYLOAD_DETAILS, DETAILS}))

\* C20: the result of either enricher depends only on the fields it
\* summarizes, and running it again on the row extended with the columns it
\* produced returns the same derived values.
C20_SameOnRerun ==
  /\ enrPc # "start" => enrOut = enrich_rivco_row(SummaryFields)
  /\ enrPc = "rerun" => enrOut2 = enrOut
  /\ amenPc # "start" => amenOut = extract_amenities(DetailFields)
  /\ amenPc = "rerun" => amenOut2 = amenOut

\* a second run over a row that carries last-sale and assessed columns next
\* to a column of its own
C20_Witness ==
  /\ enrPc = "rerun"
  /\ EnrHas("lastSaleDate") /\ EnrHas("assessedLatest")
  /\ enrRow # SummaryFields
  /\ Len(Extended(enrRow, enrOut).items) > Len(enrRow.items)

\* ------------------------------------------------------------------------
\* Amenity extractor properties
\* ------------------------------------------------------------------------
\* the entries of the details list the extractor reads, none when it is
\* not a list
DetailEntries ==
  LET first == dict_get(amenRow, PAYLOAD_DETAILS, None)
      details == IF first.t = "null" THEN dict_get(amenRow, DETAILS, None) ELSE first
  IN  IF details.t = "list" THEN details.items ELSE <<>>

\* the keys and values of the result, none when the call raised
AmenItems == IF amenOut.v.t = "dict" THEN amenOut.v.items ELSE <<>>

IsBlank(v) == v.t = "str" /\ str_strip(v.s) = <<>>

\* a mapping of an amenity category with a non-empty text type and a value
\* that is neither null nor blank
Qualifies(e) ==
  /\ e.t = "dict"
  /\ dict_get(e, "category", None).t = "str"
  /\ dict_get(e, "category", None).s \in amenity_categories
  /\ dict_get(e, "type", None).t = "str"
  /\ dict_get(e, "type", None).s # <<>>
  /\ dict_get(e, "value", None).t # "null"
  /\ ~IsBlank(dict_get(e, "value", None))

\* the key of a qualifying entry
KeyOf(e) == AMENITY_PREFIX \o to_readable(dict_get(e, "type", None).s)

\* "Yes" or "No" for a boolean, the value itself otherwise
ShownValue(e) ==
  LET value == dict_get(e, "value", None)
  IN  IF value.t = "bool"
      THEN Str(IF value.b THEN <<"Y","e","s">> ELSE <<"N","o">>)
      ELSE value

\* C21: extract_amenities outputs a key for an entry exactly when it is a
\* mapping of category amenity, infrastructure or location with a
\* non-empty text type and a value neither null nor blank; the value is
\* "Yes"/"No" for a boolean and unchanged otherwise.
C21_Original ==
  amenPc # "start" =>
    /\ \A i \in 1..Len(DetailEntries) :
         Qualifies(DetailEntries[i]) =>
           \E k \in 1..Len(AmenItems) : AmenItems[k][1] = KeyOf(DetailEntries[i])
    /\ \A k \in 1..Len(AmenItems) :
         \E i \in 1..Len(DetailEntries) :
           /\ Qualifies(DetailEntries[i])
           /\ AmenItems[k][1] = KeyOf(DetailEntries[i])
           /\ AmenItems[k][2] = ShownValue(DetailEntries[i])

HasDoubleSpace(cs) == \E i \in 1..(Len(cs) - 1) : cs[i] = " " /\ cs[i + 1] = " "

\* every letter that follows a letter is lowercase, every other letter is
\* uppercase
TitleCased(cs) ==
  \A i \in 1..Len(cs) :
    IF i > 1 /\ (IsLower(cs[i - 1]) \/ IsUpper(cs[i - 1]))
    THEN ~IsUpper(cs[i]) ELSE ~IsLower(cs[i])

\* the readable part of an output key
ReadablePart(k) == SubSeq(k, Len(AMENITY_PREFIX) + 1, Len(k))

\* C22: the readable name of an output key has no underscore, no two
\* consecutive spaces, no leading or trailing space, and every word
\* title-cased.
C22_Original ==
  amenPc # "start" =>
    \A k \in 1..Len(AmenItems) :
      LET name == ReadablePart(AmenItems[k][1])
      IN  /\ \A i \in 1..Len(name) : name[i] # "_"
          /\ ~HasDoubleSpace(name)
          /\ name = str_strip(name)
          /\ TitleCased(name)

\* ------------------------------------------------------------------------
\* Enricher properties: last-sale fields and stored zeros
\* ------------------------------------------------------------------------
\* C28: whenever enrich_rivco_row reports a salesCount of at least 1, the
\* output contains lastSaleDate, lastSalePrice and lastSaleQualified
\* (their values may be null).
C28_Original ==
  EnrichReturned /\ EnrGet("salesCount").t = "int" /\ EnrGet("salesCount").n >= 1 =>
    EnrHas("lastSaleDate") /\ EnrHas("lastSalePrice") /\ EnrHas("lastSaleQualified")

\* the value an entry stores under K, under k when K is absent
Stored(e, K, k) == dict_get(e, K, dict_get(e, k, None))

\* a number, or a text that is digits once "$", "," and outer blanks are
\* removed
IsNumeric(v) ==
  \/ v.t = "int"
  \/ v.t = "str" /\ AllDigits(str_strip(str_remove(str_remove(v.s, "$"), ",")))

NumberOf(v) ==
  IF v.t = "int" THEN Float(v.n)
  ELSE Float(DigitsToInt(str_strip(str_remove(str_remove(v.s, "$"), ","))))

\* C29: when the latest (the previous) history entry stores a number or a
\* numeric text as AssessedTot/assessedTot, assessedLatest (assessedPrev)
\* is that number, 0 included; when the last sale stores a number or a
\* numeric text as SalePrice/salePrice, lastSalePrice is that number,
\* 0 included.
C29_Original ==
  EnrichReturned =>
    /\ LET es == MappingHistory
       IN  Len(es) >= 1 /\ IntegerYears =>
             /\ IsNumeric(Stored(es[LatestIndex(es)], "AssessedTot", "assessedTot")) =>
                  EnrGet("assessedLatest") =
                    NumberOf(Stored(es[LatestIndex(es)], "AssessedTot", "assessedTot"))
             /\ Len(es) >= 2
                  /\ IsNumeric(Stored(es[PrevIndex(es)], "AssessedTot", "assessedTot")) =>
                  EnrGet("assessedPrev") =
                    NumberOf(Stored(es[PrevIndex(es)], "AssessedTot", "assessedTot"))
    /\ LET ss == MappingSales
       IN  Len(ss) = 1 /\ IsNumeric(Stored(ss[1], "SalePrice", "salePrice")) =>
             EnrGet("lastSalePrice") = NumberOf(Stored(ss[1], "SalePrice", "salePrice"))

\* the entry is written to the result: a mapping of an amenity category
\* whose type gives a non-empty text and whose value is neither null nor
\* blank
Written(e) ==
  /\ e.t = "dict"
  /\ dict_get(e, "category", Str(<<>>)).t = "str"
  /\ dict_get(e, "category", Str(<<>>)).s \in amenity_categories
  /\ truthy(dict_get(e, "type", Str(<<>>)))
  /\ dict_get(e, "value", None).t # "null"
  /\ ~IsBlank(ShownValue(e))

\* the readable name of an entry's type
NameOf(e) == to_readable(py_str(py_or(dict_get(e, "type", Str(<<>>)), Str(<<>>))).s)

\* no entry has a list or a mapping as its category
HashableCategories ==
  \A i \in 1..Len(DetailEntries) :
    DetailEntries[i].t = "dict" =>
      dict_get(DetailEntries[i], "category", Str(<<>>)).t \notin {"list", "dict"}

\* C30: extract_amenities returns when every category is hashable, and
\* when it returns, each readable name shared by several written entries
\* has one key, whose value is that of the last written entry of that name
\* in list order; a skipped entry neither overwrites nor removes a value;
\* there are no more keys than written entries.
C30_LastWrittenWins ==
  /\ amenPc # "start" /\ HashableCategories => amenOut.st = "ok"
  /\ amenPc # "start" /\ amenOut.st = "ok" =>
       LET es == DetailEntries
           ws == {i \in 1..Len(es) : Written(es[i])}
       IN  /\ \A i \in ws :
                \E k \in 1..Len(AmenItems) :
                  /\ AmenItems[k][1] = AMENITY_PREFIX \o NameOf(es[i])
                  /\ (\A j \in ws : j > i => NameOf(es[j]) # NameOf(es[i])) =>
                       AmenItems[k][2] = ShownValue(es[i])
           /\ \A k, l \in 1..Len(AmenItems) :
                AmenItems[k][1] = AmenItems[l][1] => k = l
           /\ \A k \in 1..Len(AmenItems) :
                \E i \in ws : AmenItems[k][1] = AMENITY_PREFIX \o NameOf(es[i])
           /\ Len(AmenItems) <= Cardinality(ws)

\* a returned result where two written entries of different types share a
\* readable name and differ in value, the later one being kept
C30_Witness ==
  /\ amenPc # "start" /\ amenOut.st = "ok"
  /\ \E i, j \in 1..Len(DetailEntries) :
       /\ i < j
       /\ Written(DetailEntries[i]) /\ Written(DetailEntries[j])
       /\ NameOf(DetailEntries[i]) = NameOf(DetailEntries[j])
       /\ dict_get(DetailEntries[i], "type", None) # dict_get(DetailEntries[j], "type", None)
       /\ ShownValue(DetailEntries[i]) # ShownValue(DetailEntries[j])
       /\ Len(AmenItems) = 1
       /\ AmenItems[1][2] = ShownValue(DetailEntries[j])

PageBound == OFFSET_CAP \div page_limit + 1

\* the loop was left for one of the listed reasons
ListedStop ==
  \/ pagePc \in {"unparseable", "no_parks"}
  \/ /\ pagePc = "stopped"
     /\ \/ total.n # 0 /\ offset >= total.n
        \/ max_pages.t = "int" /\ max_pages.n # 0 /\ pages >= max_pages.n
        \/ offset > OFFSET_CAP

PageSafe ==
  /\ requests <= PageBound
  /\ requests = PageBound => pagePc # "request"
  /\ pagePc \notin {"request", "raised", "idle"} => ListedStop
  /\ pagePc = "request" =>
       /\ offset <= OFFSET_CAP
       /\ max_pages.t = "int" /\ max_pages.n # 0 => pages < max_pages.n

\* C27: for every page size and every sequence of answers the search loop
\* ends, after at most floor(5000 / limit) + 1 page requests; when it ends
\* without raising, the page was unparseable, empty or not a list, or the
\* offset reached the reported total, max_pages pages were read, or the
\* offset exceeded 5000.
C27_Terminates == [](PageSafe) /\ <>(pagePc # "request")

\* the loop left at the offset cap after the full number of page requests
C27_Witness ==
  /\ pagePc = "stopped"
  /\ requests = PageBound
  /\ requests >= 2
  /\ offset > OFFSET_CAP
  /\ ~(total.n # 0 /\ offset >= total.n)
  /\ ~truthy(max_pages)

\* ------------------------------------------------------------------------
\* Detail fetch properties
\* ------------------------------------------------------------------------
InFlight == {i \in 1..Len(task) : task[i] = "inflight"}

\* permits are neither lost nor made: the free ones, those of the requests
\* in flight and those handed to woken tasks add up to the limit
SemSafe ==
  /\ Cardinality(InFlight) <= SEM_LIMIT
  /\ fetchPc = "gather" =>
       sem_value + Cardinality(InFlight)
         + Cardinality({i \in 1..Len(task) : task[i] = "woken"}) = SEM_LIMIT
  /\ \A i \in 1..Len(task) : task[i] \in {"waiting", "woken"} => i > SEM_LIMIT

Queued(i) == i <= Len(task) /\ task[i] \in {"waiting", "woken"}

Ran(i) == i <= Len(task) /\ task[i] \in {"inflight", "done"}

\* C23: at every moment at most 10 detail requests are in flight, for any
\* number of keys; a permit is released when a request completes or fails,
\* so every queued request eventually runs (only the requests after the
\* first 10 ever queue).
C23_AtMostTenInFlight ==
  /\ [](SemSafe)
  /\ \A i \in (SEM_LIMIT + 1)..(SEM_LIMIT + MaxExtra) : Queued(i) ~> Ran(i)

IsError(rec) == rec.t = "dict" /\ dict_get(rec, <<"e","r","r","o","r">>, None) = Bool(TRUE)

\* ten requests in flight, one of them sent by a task that had queued, the
\* permit coming from a request that failed
C23_Witness ==
  /\ fetchPc = "gather"
  /\ Cardinality(InFlight) = SEM_LIMIT
  /\ \E i \in InFlight : i > SEM_LIMIT
  /\ Cardinality({i \in 1..Len(task) : task[i] = "done"}) = 1
  /\ \E i \in 1..Len(task) : task[i] = "done" /\ IsError(results[i])

\* the mapping out carries every field of the mapping body, keys normalized
Carries(out, body) ==
  /\ out.t = "dict"
  /\ \A k \in 1..Len(normalize_keys(body).items) :
       dict_get(out, normalize_keys(body).items[k][1], None)
         = normalize_keys(body).items[k][2]

\* the result out is the one of the request with key k and reply r
ResultOf(out, k, r) ==
  IF r.kind = "error"
  THEN IsError(out) /\ dict_get(out, key_field(fetcher), None) = k
         /\ dict_get(out, <<"m","e","s","s","a","g","e">>, None) = r.body
  ELSE IF r.kind = "text"
  THEN IsError(out) /\ dict_get(out, key_field(fetcher), None) = k
         /\ dict_get(out, <<"r","a","w">>, None) = r.body
  ELSE IF r.body.t = "dict" THEN Carries(out, r.body)
  ELSE /\ out.t = "list"
       /\ Len(out.items) = Len(r.body.items)
       /\ \A m \in 1..Len(out.items) :
            IF r.body.items[m].t = "dict" THEN Carries(out.items[m], r.body.items[m])
            ELSE out.items[m] = r.body.items[m]

\* C26: the detail fetch returns one result per requested key, the i-th
\* result for the i-th key; a request that fails or whose body is not JSON
\* gives an error-marked record carrying its key at that position, and the
\* other results are all there.
C26_OneResultPerKey ==
  fetchPc = "returned" =>
    /\ fetchOut.t = "list"
    /\ Len(fetchOut.items) = Len(pins)
    /\ \A i \in 1..Len(pins) : ResultOf(fetchOut.items[i], pins[i], reply(i))

\* two keys, the second request answered first, the first one failed
C26_Witness ==
  /\ fetchPc = "returned"
  /\ overtaken
  /\ Len(pins) = 2
  /\ reply(1).kind = "error" /\ reply(2).kind = "json"
  /\ IsError(fetchOut.items[1])
  /\ ~IsError(fetchOut.items[2])

\* the mappings of a result: itself, or the mapping items of a list
MappingsOf(rec) ==
  IF rec.t = "dict" THEN <<rec>>
  ELSE IF rec.t = "list" THEN DictsOf(rec.items)
  ELSE <<>>

HasKey(d, k) == \E m \in 1..Len(d.items) : d.items[m][1] = k

\* the truthy situs_city values of the search rows with APN a
CitiesOf(a) ==
  {dict_get(rows[m], <<"s","i","t","u","s","_","c","i","t","y">>, None) :
     m \in {n \in 1..Len(rows) :
              /\ rows[n].t = "dict"
              /\ dict_get(rows[n], <<"a","p","n">>, None) = a
              /\ truthy(dict_get(rows[n], <<"s","i","t","u","s","_","c","i","t","y">>, None))}}

\* the situs_city of the last search row with APN a
CityOfApn(a) ==
  LET own == {n \in 1..Len(rows) :
                rows[n].t = "dict" /\ dict_get(rows[n], <<"a","p","n">>, None) = a}
  IN  dict_get(rows[CHOOSE n \in own : \A m \in own : m <= n], <<"s","i","t","u","s","_","c","i","t","y">>, None)

\* C24: in fetch_rivcoview, whatever the order in which the requests
\* complete, a record that has a city keeps it, a record without one gets
\* the situs_city of the search row with the record's own APN (of the last
\* such row when several rows share the APN), and gets none when that row
\* has no city.
C24_CityOfOwnApn ==
  fetchPc = "returned" /\ fetcher = "rivcoview" =>
    \A i \in 1..Len(pins) :
      LET raw == MappingsOf(results[i])
          out == MappingsOf(fetchOut.items[i])
      IN  /\ Len(out) = Len(raw)
          /\ \A m \in 1..Len(raw) :
               IF HasKey(raw[m], <<"c","i","t","y">>)
               THEN dict_get(out[m], <<"c","i","t","y">>, None) = dict_get(raw[m], <<"c","i","t","y">>, None)
               ELSE IF truthy(CityOfApn(pins[i]))
               THEN HasKey(out[m], <<"c","i","t","y">>)
                      /\ dict_get(out[m], <<"c","i","t","y">>, None) = CityOfApn(pins[i])
               ELSE ~HasKey(out[m], <<"c","i","t","y">>)

\* two parcels of different cities, the second request answered first: a
\* record with a city of its own kept it and a record without one got
\* the city of its own parcel
C24_Witness ==
  /\ fetchPc = "returned" /\ fetcher = "rivcoview"
  /\ overtaken
  /\ Len(pins) = 2
  /\ CitiesOf(pins[1]) = {City_X} /\ CitiesOf(pins[2]) = {City_Y}
  /\ results[1].t = "dict" /\ HasKey(results[1], <<"c","i","t","y">>)
  /\ dict_get(fetchOut.items[1], <<"c","i","t","y">>, None) = City_Z
  /\ results[2].t = "dict" /\ ~HasKey(results[2], <<"c","i","t","y">>)
  /\ dict_get(fetchOut.items[2], <<"c","i","t","y">>, None) = City_Y

====
